---- MODULE Spec2Model ----
(***************************************************************************)
(* A model of nightfall_3's ledger-state core:                             *)
(*   - the client's withdraw transaction builder and the commitment        *)
(*     allocator it drives (reserve / confirmSpent / release);             *)
(*   - the State contract (proposeBlock, popBlockData, the circular list   *)
(*     of proposers and the current proposer);                             *)
(*   - the optimist's admission of transactions (the /offchain-transaction *)
(*     route, the event queue, transactionSubmittedEventHandler and        *)
(*     submitTransaction) over its transactions and blocks collections.    *)
(* Each subsystem has its own next-state relation over the same variables. *)
(***************************************************************************)
EXTENDS Integers, Sequences, FiniteSets, TLC

(***************************************************************************)
(* Bounds                                                                  *)
(***************************************************************************)
NumCalls == 2          \* concurrent withdraw calls
NumCommitments == 3    \* commitments in the client's store
NumKeys == 2           \* distinct (owner key, asset, token id) query keys

NumAddresses == 3      \* externally owned accounts that may act as proposers
MaxBlocks == 2         \* cap on the length of blockHashes
TRANSACTIONS_PER_BLOCK == 3 \* Config.sol's constant, scaled down
MaxPending == 2        \* cap on a pending withdrawal
MaxBond == 2           \* cap on a bond account

MaxQueue == 1          \* cap on the length of the optimist's event queue
MaxArity == 3          \* cap on numberCommitments and numberNullifiers
MaxEvents == 2         \* cap on the TransactionSubmitted events emitted

Calls == 1..NumCalls
Commitments == 1..NumCommitments
Keys == 1..NumKeys
Values == {1, 2}

\* the query key (compressedPkd, ercAddress, tokenId) and the value of a stored commitment
CKey(c) == 1 + (c % NumKeys)
CValue(c) == 1

VARIABLES
  wpc,             \* position of each withdraw call
  wparams,         \* withdrawParams of each call: the query key and the value
  status,          \* commitment store: available / pending / nullified
  nullifiedBy,     \* commitment store: back-reference to the spending transaction
  lock,            \* keyed mutex of findUsableCommitmentsMutex: holder per key, 0 = free
  found,           \* the commitment a call selected inside its critical section
  oldCommitment,   \* withdraw's local oldCommitment
  rawTransaction,  \* withdraw built (ABI-encoded) its raw transaction
  submitted        \* the caller signed and sent the returned raw transaction

wvars == <<wpc, wparams, status, nullifiedBy, lock, found, oldCommitment,
           rawTransaction, submitted>>

VARIABLES
  blockHashes,         \* State.blockHashes
  proposers,           \* State.proposers
  currentProposer,     \* State.currentProposer
  feeBook,             \* State.feeBook, keyed by (proposer, blockNumberL2)
  bondAccounts,        \* State.bondAccounts
  pendingWithdrawals,  \* State.pendingWithdrawals
  lastCall             \* receipt of the last call to the contract

svars == <<blockHashes, proposers, currentProposer, feeBook, bondAccounts,
           pendingWithdrawals, lastCall>>

VARIABLES
  transactions,  \* optimist's transactions collection, documents in insertion order
  blocks,        \* optimist's blocks collection: the transaction hashes its blocks hold
  eventQueue,    \* event-queue.mjs: the eventParams waiting for their handler
  lastEvent      \* what the last route call answered or the last handler run did

avars == <<transactions, blocks, eventQueue, lastEvent>>

VARIABLES
  txsQueue,                \* transactions-queue.mjs: the signed transactions waiting to be sent
  registeredProposerInDb,  \* the optimist's record of its registration: its url, 0 = none
  isMe,                    \* proposer.isMe
  lastResponse             \* what the last call of a route of /proposer answered

gvars == <<txsQueue, registeredProposerInDb, isMe, lastResponse>>

VARIABLES
  l2blocks,         \* the optimist's stored blocks, block n at index n
  pool,             \* the mempool: the transactions waiting for a block, first in first out
  timber,           \* the Merkle accumulator
  commitmentState,  \* the state of the commitment each transaction spends
  history,          \* the node's state right after each of its blocks was confirmed
  lastOp            \* the last operation on the node's blocks and mempool

rvars == <<l2blocks, pool, timber, commitmentState, history, lastOp>>

VARIABLES
  arguments,        \* the arguments of the last call of the Transaction constructor
  built,            \* the transaction the constructor returned
  held,             \* the transaction as it is handed to checkHash
  checkHashResult   \* what checkHash answered

tvars == <<arguments, built, held, checkHashResult>>

VARIABLES
  inFlight,   \* the requests sent to the transaction workers and not yet handled
  emitted,    \* the TransactionSubmitted events in the order they were queued
  admitted    \* the events in the order submitTransaction ran on their transactions

kvars == <<inFlight, emitted, admitted>>

VARIABLES
  proposerStartBlock,  \* State.proposerStartBlock
  claimedBlockStakes,  \* State.claimedBlockStakes: the block hashes whose stake was claimed
  paid                 \* the ETH and MATIC that State.withdraw transferred to each account

cvars == <<proposerStartBlock, claimedBlockStakes, paid>>

\* the variables of the optimist beyond its admission of transactions
ovars == <<gvars, rvars, tvars, kvars>>

nvars == <<ovars, cvars>>

vars == <<wvars, svars, avars, nvars>>

(***************************************************************************)
(* Commitment allocator (commitment-storage.mjs)                           *)
(***************************************************************************)
\* the predicate of findUsableCommitments with onlyOne = true
Usable(st, key, value) ==
  {c \in Commitments : st[c] = "available" /\ CKey(c) = key /\ CValue(c) = value}

markPending(st, c) == [st EXCEPT ![c] = "pending"]

markNullified(st, c) == [st EXCEPT ![c] = "nullified"]

clearPending(st, c) == [st EXCEPT ![c] = "available"]

WInit ==
  /\ wpc = [i \in Calls |-> "idle"]
  /\ wparams = [i \in Calls |-> [key |-> 0, value |-> 0]]
  /\ status = [c \in Commitments |-> "available"]
  /\ nullifiedBy = [c \in Commitments |-> 0]
  /\ lock = [k \in Keys |-> 0]
  /\ found = [i \in Calls |-> 0]
  /\ oldCommitment = [i \in Calls |-> 0]
  /\ rawTransaction = [i \in Calls |-> FALSE]
  /\ submitted = [i \in Calls |-> FALSE]

(***************************************************************************)
(* withdraw                                                                *)
(***************************************************************************)
\* line 29-31: the parameters are read and the keys derived
WithdrawStart(i) ==
  /\ wpc[i] = "idle"
  /\ \E k \in Keys, v \in Values :
       wparams' = [wparams EXCEPT ![i] = [key |-> k, value |-> v]]
  /\ wpc' = [wpc EXCEPT ![i] = "reserve"]
  /\ UNCHANGED <<status, nullifiedBy, lock, found, oldCommitment, rawTransaction, submitted>>

\* calculateIvkPkdfromAskNsk rejects: nothing has been reserved yet
WithdrawKeysFail(i) ==
  /\ wpc[i] = "idle"
  /\ wpc' = [wpc EXCEPT ![i] = "failed"]
  /\ UNCHANGED <<wparams, status, nullifiedBy, lock, found, oldCommitment, rawTransaction,
                 submitted>>

\* findUsableCommitmentsMutex: enter the critical section of the query key
MutexAcquireRace(i) ==
  /\ wpc[i] = "reserve"
  /\ lock' = [lock EXCEPT ![wparams[i].key] = i]
  /\ wpc' = [wpc EXCEPT ![i] = "find"]
  /\ UNCHANGED <<wparams, status, nullifiedBy, found, oldCommitment, rawTransaction, submitted>>

MutexAcquireGlobal(i) ==
  /\ wpc[i] = "reserve"
  /\ \A k \in Keys : lock[k] = 0
  /\ lock' = [lock EXCEPT ![wparams[i].key] = i]
  /\ wpc' = [wpc EXCEPT ![i] = "find"]
  /\ UNCHANGED <<wparams, status, nullifiedBy, found, oldCommitment, rawTransaction, submitted>>

MutexAcquire(i) ==
  /\ wpc[i] = "reserve"
  /\ lock[wparams[i].key] = 0
  /\ lock' = [lock EXCEPT ![wparams[i].key] = i]
  /\ wpc' = [wpc EXCEPT ![i] = "find"]
  /\ UNCHANGED <<wparams, status, nullifiedBy, found, oldCommitment, rawTransaction, submitted>>

\* findUsableCommitments: query the store for a usable commitment
FindUsable(i) ==
  /\ wpc[i] = "find"
  /\ LET usable == Usable(status, wparams[i].key, wparams[i].value) IN
       IF usable = {}
         THEN found' = [found EXCEPT ![i] = 0]
         ELSE \E c \in usable : found' = [found EXCEPT ![i] = c]
  /\ wpc' = [wpc EXCEPT ![i] = "markPending"]
  /\ UNCHANGED <<wparams, status, nullifiedBy, lock, oldCommitment, rawTransaction, submitted>>

\* the selected commitment is marked pending before the lock is released;
\* withdraw lines 35-43: null result throws 'No suitable commitments were found'
ReserveReturn(i) ==
  /\ wpc[i] = "markPending"
  /\ lock' = [lock EXCEPT ![wparams[i].key] = IF @ = i THEN 0 ELSE @]
  /\ IF found[i] = 0
       THEN /\ wpc' = [wpc EXCEPT ![i] = "failed"]
            /\ UNCHANGED <<status, oldCommitment>>
       ELSE /\ status' = markPending(status, found[i])
            /\ oldCommitment' = [oldCommitment EXCEPT ![i] = found[i]]
            /\ wpc' = [wpc EXCEPT ![i] = "sibling"]
  /\ UNCHANGED <<wparams, nullifiedBy, found, rawTransaction, submitted>>

\* line 48: getSiblingInfo resolves
SiblingInfoOk(i) ==
  /\ wpc[i] = "sibling"
  /\ wpc' = [wpc EXCEPT ![i] = "contract"]
  /\ UNCHANGED <<wparams, status, nullifiedBy, lock, found, oldCommitment, rawTransaction,
                 submitted>>

\* lines 46-48: new Nullifier throws or getSiblingInfo rejects, outside any try block
SiblingInfoThrows(i) ==
  /\ wpc[i] = "sibling"
  /\ wpc' = [wpc EXCEPT ![i] = "failed"]
  /\ UNCHANGED <<wparams, status, nullifiedBy, lock, found, oldCommitment, rawTransaction,
                 submitted>>

\* lines 49-114: public inputs, witness, getContractInstance, new Transaction
ContractOk(i) ==
  /\ wpc[i] = "contract"
  /\ wpc' = [wpc EXCEPT ![i] = "encode"]
  /\ UNCHANGED <<wparams, status, nullifiedBy, lock, found, oldCommitment, rawTransaction,
                 submitted>>

\* lines 49-114: any of these throws, outside any try block
ContractThrows(i) ==
  /\ wpc[i] = "contract"
  /\ wpc' = [wpc EXCEPT ![i] = "failed"]
  /\ UNCHANGED <<wparams, status, nullifiedBy, lock, found, oldCommitment, rawTransaction,
                 submitted>>

\* lines 116-118: the raw transaction is built
EncodeOk(i) ==
  /\ wpc[i] = "encode"
  /\ rawTransaction' = [rawTransaction EXCEPT ![i] = TRUE]
  /\ wpc' = [wpc EXCEPT ![i] = "mark"]
  /\ UNCHANGED <<wparams, status, nullifiedBy, lock, found, oldCommitment, submitted>>

\* lines 116-118 throw inside the try block
EncodeThrowsIgnored(i) ==
  /\ wpc[i] = "encode"
  /\ wpc' = [wpc EXCEPT ![i] = "mark"]
  /\ UNCHANGED <<wparams, status, nullifiedBy, lock, found, oldCommitment, rawTransaction,
                 submitted>>

EncodeThrows(i) ==
  /\ wpc[i] = "encode"
  /\ wpc' = [wpc EXCEPT ![i] = "catch"]
  /\ UNCHANGED <<wparams, status, nullifiedBy, lock, found, oldCommitment, rawTransaction,
                 submitted>>

\* lines 120-121: markNullified, then return
MarkNullifiedOk(i) ==
  /\ wpc[i] = "mark"
  /\ status' = markNullified(status, oldCommitment[i])
  /\ nullifiedBy' = [nullifiedBy EXCEPT ![oldCommitment[i]] = i]
  /\ wpc' = [wpc EXCEPT ![i] = "done"]
  /\ UNCHANGED <<wparams, lock, found, oldCommitment, rawTransaction, submitted>>

\* line 120: markNullified rejects inside the try block
MarkNullifiedThrows(i) ==
  /\ wpc[i] = "mark"
  /\ wpc' = [wpc EXCEPT ![i] = "catch"]
  /\ UNCHANGED <<wparams, status, nullifiedBy, lock, found, oldCommitment, rawTransaction,
                 submitted>>

\* lines 122-125: the catch block
CatchKeepPending(i) ==
  /\ wpc[i] = "catch"
  /\ wpc' = [wpc EXCEPT ![i] = "failed"]
  /\ UNCHANGED <<wparams, status, nullifiedBy, lock, found, oldCommitment, rawTransaction,
                 submitted>>

CatchClearPending(i) ==
  /\ wpc[i] = "catch"
  /\ status' = clearPending(status, oldCommitment[i])
  /\ wpc' = [wpc EXCEPT ![i] = "failed"]
  /\ UNCHANGED <<wparams, nullifiedBy, lock, found, oldCommitment, rawTransaction, submitted>>

\* the caller signs and sends the raw transaction that withdraw returned
CallerSubmit(i) ==
  /\ wpc[i] = "done"
  /\ ~submitted[i]
  /\ submitted' = [submitted EXCEPT ![i] = TRUE]
  /\ UNCHANGED <<wpc, wparams, status, nullifiedBy, lock, found, oldCommitment, rawTransaction>>

WNext ==
  \E i \in Calls :
    \/ WithdrawStart(i)
    \/ WithdrawKeysFail(i)
    \/ MutexAcquire(i)
    \/ FindUsable(i)
    \/ ReserveReturn(i)
    \/ SiblingInfoOk(i)
    \/ SiblingInfoThrows(i)
    \/ ContractOk(i)
    \/ ContractThrows(i)
    \/ EncodeOk(i)
    \/ EncodeThrows(i)
    \/ MarkNullifiedOk(i)
    \/ MarkNullifiedThrows(i)
    \/ CatchClearPending(i)
    \/ CallerSubmit(i)

(***************************************************************************)
(* State.sol                                                               *)
(* block.timestamp is not modelled and BlockData.time is left out; every   *)
(* call happens in the block L1BlockNumber. Pausable is left out (the    *)
(* contract is never paused).  Of the Block structure the model keeps the  *)
(* fields the contract reads by name.                                      *)
(***************************************************************************)
L1BlockNumber == 1
BLOCK_STAKE == 1
MinimumStake == 1

ZeroAddress == 0
Addresses == 1..NumAddresses
proposersAddress == NumAddresses + 1
challengesAddress == NumAddresses + 2
shieldAddress == NumAddresses + 3
ContractCallers == {proposersAddress, challengesAddress, shieldAddress, 1}

\* the modifiers, lines 52-75
onlyRegistered(sender) == sender \in {proposersAddress, challengesAddress, shieldAddress}
onlyShield(sender) == sender = shieldAddress
onlyProposer(sender) == sender = proposersAddress
onlyChallengerOrAnyone(sender) == TRUE
onlyChallenger(sender) == sender = challengesAddress

LinkedAddress(this, prev, next, url, fee) ==
  [thisAddress |-> this, previousAddress |-> prev, nextAddress |-> next, url |-> url,
   fee |-> fee]

ZeroLinkedAddress == LinkedAddress(ZeroAddress, ZeroAddress, ZeroAddress, 0, 0)

TimeLockedBond(amount, time) == [amount |-> amount, time |-> time]

\* keccak256 is modelled as a free constructor: a hash is the record of its preimage
ZeroHash == [k |-> "zero"]
hashTransaction(tx) == [k |-> "transaction", tx |-> tx]
hashPair(left, right) == [k |-> "pair", left |-> left, right |-> right]
hashBlock(b) == [k |-> "block", b |-> b]

DEPOSIT == 0

\* the transactions a proposer may submit: deposits and transfers, with and without a fee
TxTemplate ==
  [i \in 1..(TRANSACTIONS_PER_BLOCK + 1) |->
     [transactionType |-> IF i % 2 = 1 THEN DEPOSIT ELSE 1,
      fee |-> IF i <= 2 THEN 1 ELSE 0,
      id |-> i]]

TxLists ==
  {SubSeq(TxTemplate, 1, n) : n \in {0, TRANSACTIONS_PER_BLOCK, TRANSACTIONS_PER_BLOCK + 1}}

\* the lists of one transaction and of three
ShortTxLists == {SubSeq(TxTemplate, 1, n) : n \in {1, 3}}

Pow2(n) == 2 ^ n

\* lines 137-146
RECURSIVE treeHeightFrom(_, _)
treeHeightFrom(height, leaves) ==
  IF Pow2(height) < leaves THEN treeHeightFrom(height + 1, leaves) ELSE height

\* getTreeHeight if _height started at 0
getTreeHeightFromZero(leaves) == treeHeightFrom(0, leaves)

getTreeHeight(leaves) == treeHeightFrom(1, leaves)

\* lines 113-121
RECURSIVE feePayments(_, _, _)
feePayments(t, i, deposit) ==
  IF i > Len(t) THEN 0
  ELSE (IF (t[i].transactionType = DEPOSIT) = deposit THEN t[i].fee ELSE 0)
       + feePayments(t, i + 1, deposit)

\* lines 158-175: the memory at transactionHashesPos after the first loop, as words 0 .. 2^height - 1
transactionHashesMemory(t) ==
  [j \in 0..(Pow2(getTreeHeight(Len(t))) - 1) |->
     IF j < Len(t) THEN hashTransaction(t[j + 1]) ELSE ZeroHash]

\* lines 215-225, without the shortcut for two empty words
hashNodeNoShortcut(left, right) == hashPair(left, right)

\* lines 215-225: one node of the tree, written over word j
hashNode(left, right) ==
  IF left = ZeroHash /\ right = ZeroHash THEN ZeroHash ELSE hashPair(left, right)

\* lines 205-227: the two nested loops, in place
RECURSIVE rootLoop(_, _, _)
rootLoop(mem, i, j) ==
  IF i = 0 THEN mem
  ELSE IF j >= Pow2(i - 1) THEN rootLoop(mem, i - 1, 0)
  ELSE rootLoop([mem EXCEPT ![j] = hashNode(mem[2 * j], mem[2 * j + 1])], i, j + 1)

transactionHashesRoot(t) ==
  rootLoop(transactionHashesMemory(t), getTreeHeight(Len(t)), 0)[0]

\* lines 182-201: the word at x after the call that asks whether a deposit was escrowed.
\* The call's target is the address numbered shieldAddress.slot, the storage slot of the
\* variable and not its content: an account without code, whose call returns no data,
\* so that x still holds the function signature.
escrowWordIsZero(txHash) == FALSE

\* Shield.getTransactionEscrowed: the deposits whose funds the shield contract holds; of
\* the deposits a proposer may submit the first was paid on chain, the others were not
getTransactionEscrowed(txHash) == txHash = hashTransaction(TxTemplate[1])

depositNotEscrowed(t) ==
  \E i \in 1..Len(t) :
    t[i].transactionType = DEPOSIT /\ escrowWordIsZero(hashTransaction(t[i]))

(***************************************************************************)
(* Receipts                                                                *)
(***************************************************************************)
\* A call that reverts changes nothing, lastCall included: lastCall is the receipt of the
\* last call that went through, with its sender, its arguments and the events it emitted
\* (and, for a removal, whether it found the removed proposer current).
NoArgs == [none |-> 0]
NoCall == [op |-> "none", sender |-> 0, events |-> <<>>, args |-> NoArgs]
Succeeded(op, sender, events, args) ==
  [op |-> op, sender |-> sender, events |-> events, args |-> args]
Event(name, arg) == [name |-> name, arg |-> arg]

SInit ==
  /\ blockHashes = <<>>
  /\ proposers = [a \in 0..NumAddresses |-> ZeroLinkedAddress]
  /\ currentProposer = ZeroLinkedAddress
  /\ feeBook = [key \in Addresses \X (0..(MaxBlocks - 1)) |-> <<0, 0>>]
  /\ bondAccounts = [a \in Addresses |-> TimeLockedBond(0, 0)]
  /\ pendingWithdrawals = [a \in Addresses |-> <<0, 0>>]
  /\ lastCall = NoCall
  /\ proposerStartBlock = 0
  /\ claimedBlockStakes = {}
  /\ paid = [a \in Addresses |-> <<0, 0>>]

(***************************************************************************)
(* proposeBlock                                                            *)
(***************************************************************************)
\* the root check of lines 229-237 and the deposit check, shared by the variants below
assemblyError(b, t) ==
  IF depositNotEscrowed(t) THEN "revert"
  ELSE IF b.transactionHashesRoot # transactionHashesRoot(t) THEN "revert"
  ELSE ""

\* proposeBlock without the require of lines 103-107
proposeBlockErrorNoPreviousHash(sender, value, b, t) ==
  IF sender # currentProposer.thisAddress THEN "Only the current proposer can call this."
  ELSE IF b.blockNumberL2 # Len(blockHashes) THEN "The block is out of order"
  ELSE IF ~(BLOCK_STAKE <= value) THEN "The stake payment is incorrect"
  ELSE IF b.proposer # sender THEN "The proposer address is not the sender"
  ELSE IF ~(Len(t) <= TRANSACTIONS_PER_BLOCK) THEN "The block has too many transactions"
  ELSE assemblyError(b, t)

\* proposeBlock without the modifier onlyCurrentProposer
proposeBlockErrorAnySender(sender, value, b, t) ==
  IF b.blockNumberL2 # Len(blockHashes) THEN "The block is out of order"
  ELSE IF Len(blockHashes) # 0
          /\ b.previousBlockHash # blockHashes[Len(blockHashes)].blockHash
    THEN "The block is flawed or out of order"
  ELSE IF ~(BLOCK_STAKE <= value) THEN "The stake payment is incorrect"
  ELSE IF b.proposer # sender THEN "The proposer address is not the sender"
  ELSE IF ~(Len(t) <= TRANSACTIONS_PER_BLOCK) THEN "The block has too many transactions"
  ELSE assemblyError(b, t)

\* proposeBlock without the require of line 108
proposeBlockErrorNoStake(sender, value, b, t) ==
  IF sender # currentProposer.thisAddress THEN "Only the current proposer can call this."
  ELSE IF b.blockNumberL2 # Len(blockHashes) THEN "The block is out of order"
  ELSE IF Len(blockHashes) # 0
          /\ b.previousBlockHash # blockHashes[Len(blockHashes)].blockHash
    THEN "The block is flawed or out of order"
  ELSE IF b.proposer # sender THEN "The proposer address is not the sender"
  ELSE IF ~(Len(t) <= TRANSACTIONS_PER_BLOCK) THEN "The block has too many transactions"
  ELSE assemblyError(b, t)

\* the modifiers and the requires, in order; "" when the call goes through
proposeBlockError(sender, value, b, t) ==
  IF sender # currentProposer.thisAddress THEN "Only the current proposer can call this."
  ELSE IF b.blockNumberL2 # Len(blockHashes) THEN "The block is out of order"
  ELSE IF Len(blockHashes) # 0
          /\ b.previousBlockHash # blockHashes[Len(blockHashes)].blockHash
    THEN "The block is flawed or out of order"
  ELSE IF ~(BLOCK_STAKE <= value) THEN "The stake payment is incorrect"
  ELSE IF b.proposer # sender THEN "The proposer address is not the sender"
  ELSE IF ~(Len(t) <= TRANSACTIONS_PER_BLOCK) THEN "The block has too many transactions"
  ELSE assemblyError(b, t)

proposeBlock(sender, value, b, t) ==
  LET error == proposeBlockError(sender, value, b, t) IN
    IF error # ""
      THEN UNCHANGED <<blockHashes, feeBook, lastCall>>
      ELSE /\ Len(blockHashes) < MaxBlocks
           /\ feeBook' = [feeBook EXCEPT ![<<b.proposer, b.blockNumberL2>>] =
                            <<feePayments(t, 1, TRUE), feePayments(t, 1, FALSE)>>]
           /\ blockHashes' = Append(blockHashes, [blockHash |-> hashBlock(b)])
           /\ lastCall' = Succeeded("proposeBlock", sender, <<Event("BlockProposed", 0)>>,
                                    [b |-> b, t |-> t, value |-> value])

\* the callers' inputs: the block that is next in the list and its stake, or the same
\* with one of them not as it should be
ProposeBlockInputs(sender, t) ==
  LET last == IF Len(blockHashes) = 0
                THEN ZeroHash ELSE blockHashes[Len(blockHashes)].blockHash
      next == [proposer |-> sender, blockNumberL2 |-> Len(blockHashes),
               previousBlockHash |-> last,
               transactionHashesRoot |-> transactionHashesRoot(t)]
  IN  {[value |-> value, b |-> next] : value \in {BLOCK_STAKE - 1, BLOCK_STAKE}}
      \cup {[value |-> BLOCK_STAKE, b |-> [next EXCEPT !.transactionHashesRoot = root]] :
               root \in {ZeroHash, hashTransaction(TxTemplate[1])}}
      \cup {[value |-> BLOCK_STAKE, b |-> [next EXCEPT !.proposer = ZeroAddress]]}
      \cup {[value |-> BLOCK_STAKE, b |-> [next EXCEPT !.blockNumberL2 = n]] :
               n \in {0, MaxBlocks}}
      \cup {[value |-> BLOCK_STAKE, b |-> [next EXCEPT !.previousBlockHash = h]] :
               h \in {ZeroHash} \cup {blockHashes[n].blockHash : n \in 1..Len(blockHashes)}}

ProposeBlockOf(lists) ==
  /\ \E t \in lists, sender \in Addresses :
       \E input \in ProposeBlockInputs(sender, t) :
         proposeBlock(sender, input.value, input.b, t)
  /\ UNCHANGED <<proposers, currentProposer, bondAccounts, pendingWithdrawals>>
  /\ UNCHANGED <<wvars, avars, nvars>>

ProposeBlock == ProposeBlockOf(TxLists)

\* in the specification of the tree over the transaction hashes the blocks are short
ProposeShortBlock == ProposeBlockOf(ShortTxLists)

(***************************************************************************)
(* popBlockData                                                            *)
(***************************************************************************)
PopBlockDataFirst ==
  /\ \E sender \in ContractCallers :
       IF ~onlyChallenger(sender) \/ Len(blockHashes) = 0
         THEN UNCHANGED <<blockHashes, lastCall>>
       ELSE /\ blockHashes' = Tail(blockHashes)
            /\ lastCall' = Succeeded("popBlockData", sender, <<>>,
                                     [popped |-> blockHashes[Len(blockHashes)]])
  /\ UNCHANGED <<proposers, currentProposer, feeBook, bondAccounts, pendingWithdrawals>>
  /\ UNCHANGED <<wvars, avars, nvars>>

PopBlockData ==
  /\ \E sender \in ContractCallers :
       IF ~onlyChallenger(sender) \/ Len(blockHashes) = 0
         THEN UNCHANGED <<blockHashes, lastCall>>
       ELSE /\ blockHashes' = SubSeq(blockHashes, 1, Len(blockHashes) - 1)
            /\ lastCall' = Succeeded("popBlockData", sender, <<>>,
                                     [popped |-> blockHashes[Len(blockHashes)]])
  /\ UNCHANGED <<proposers, currentProposer, feeBook, bondAccounts, pendingWithdrawals>>
  /\ UNCHANGED <<wvars, avars, nvars>>

(***************************************************************************)
(* The proposers                                                           *)
(***************************************************************************)
\* line 265-267
setProposer(ps, addr, proposer) == [ps EXCEPT ![addr] = proposer]

\* removedProposers that deletes the entry and leaves its neighbours' links as they were
removedProposersNoRelink(ps, proposer) == [ps EXCEPT ![proposer] = ZeroLinkedAddress]

\* lines 347-351: the map after the removal
removedProposers(ps, proposer) ==
  LET previousAddress == ps[proposer].previousAddress
      nextAddress == ps[proposer].nextAddress
      deleted == [ps EXCEPT ![proposer] = ZeroLinkedAddress]
      relinkedNext ==
        [deleted EXCEPT ![previousAddress].nextAddress = deleted[nextAddress].thisAddress]
  IN  [relinkedNext EXCEPT
         ![nextAddress].previousAddress = relinkedNext[previousAddress].thisAddress]

\* line 355, if the current proposer changed only when it is the one removed
currentAfterRemovalIfCurrent(ps, proposer) ==
  IF currentProposer.thisAddress = proposer
    THEN removedProposers(ps, proposer)[ps[proposer].nextAddress]
    ELSE currentProposer

\* line 355, if the current proposer were left alone
currentAfterRemovalKept(ps, proposer) == currentProposer

\* line 355
currentAfterRemoval(ps, proposer) ==
  removedProposers(ps, proposer)[ps[proposer].nextAddress]

\* lines 346-357
removeProposer(proposer) ==
  /\ proposers' = removedProposers(proposers, proposer)
  /\ proposerStartBlock' = L1BlockNumber
  /\ currentProposer' = currentAfterRemoval(proposers, proposer)

RemoveProposer ==
  /\ \E sender \in ContractCallers, proposer \in Addresses :
       IF ~onlyRegistered(sender)
         THEN UNCHANGED <<proposers, currentProposer, proposerStartBlock, lastCall>>
         ELSE /\ removeProposer(proposer)
              /\ lastCall' = Succeeded("removeProposer", sender,
                                <<Event("NewCurrentProposer", currentProposer'.thisAddress)>>,
                                [proposer |-> proposer,
                                 wasCurrent |-> currentProposer.thisAddress = proposer])
  /\ UNCHANGED <<blockHashes, feeBook, bondAccounts, pendingWithdrawals>>
  /\ UNCHANGED <<wvars, avars, ovars, claimedBlockStakes, paid>>

\* the accounts that challenge
Challengers == {1}

\* lines 419-428
RewardChallengerKeepBond ==
  /\ \E sender \in ContractCallers, challengerAddr \in Challengers, proposer \in Addresses,
        numRemoved \in {0, 1} :
       IF ~onlyChallenger(sender)
         THEN UNCHANGED <<proposers, currentProposer, proposerStartBlock, bondAccounts,
                          pendingWithdrawals, lastCall>>
         ELSE LET bond == bondAccounts[proposer]
                  afterBond == [bondAccounts EXCEPT ![proposer] = TimeLockedBond(0, 0)]
                  reward == bond.amount + numRemoved * BLOCK_STAKE
              IN  /\ pendingWithdrawals[challengerAddr][1] + reward <= MaxPending
                  /\ removeProposer(proposer)
                  /\ bondAccounts' = bondAccounts
                  /\ pendingWithdrawals' =
                       [pendingWithdrawals EXCEPT ![challengerAddr][1] = @ + reward]
                  /\ lastCall' = Succeeded("rewardChallenger", sender,
                                    <<Event("NewCurrentProposer", currentProposer'.thisAddress)>>,
                                    [challengerAddr |-> challengerAddr, proposer |-> proposer,
                                     numRemoved |-> numRemoved,
                                     wasCurrent |-> currentProposer.thisAddress = proposer])
  /\ UNCHANGED <<blockHashes, feeBook>>
  /\ UNCHANGED <<wvars, avars, ovars, claimedBlockStakes, paid>>

RewardChallenger ==
  /\ \E sender \in ContractCallers, challengerAddr \in Challengers, proposer \in Addresses,
        numRemoved \in {0, 1} :
       IF ~onlyChallenger(sender)
         THEN UNCHANGED <<proposers, currentProposer, proposerStartBlock, bondAccounts,
                          pendingWithdrawals, lastCall>>
         ELSE LET bond == bondAccounts[proposer]
                  afterBond == [bondAccounts EXCEPT ![proposer] = TimeLockedBond(0, 0)]
                  reward == bond.amount + numRemoved * BLOCK_STAKE
              IN  /\ pendingWithdrawals[challengerAddr][1] + reward <= MaxPending
                  /\ removeProposer(proposer)
                  /\ bondAccounts' = afterBond
                  /\ pendingWithdrawals' =
                       [pendingWithdrawals EXCEPT ![challengerAddr][1] = @ + reward]
                  /\ lastCall' = Succeeded("rewardChallenger", sender,
                                    <<Event("NewCurrentProposer", currentProposer'.thisAddress)>>,
                                    [challengerAddr |-> challengerAddr, proposer |-> proposer,
                                     numRemoved |-> numRemoved,
                                     wasCurrent |-> currentProposer.thisAddress = proposer])
  /\ UNCHANGED <<blockHashes, feeBook>>
  /\ UNCHANGED <<wvars, avars, ovars, claimedBlockStakes, paid>>

\* lines 273-275, if the copy of the current proposer were left as it was
setCurrentProposerStale(ps, proposer) == currentProposer

\* lines 273-275: currentProposer is a copy of the entry
setCurrentProposer(ps, proposer) == ps[proposer]

\* lines 410-412
setBondAccount(bonds, addr, amount) == [bonds EXCEPT ![addr] = TimeLockedBond(amount, 0)]

\* what a registration offers: the url, the fee and the stake sent with the call
Offer(url, fee, stake) == [url |-> url, fee |-> fee, stake |-> stake]
Offers == {Offer(1, 0, MinimumStake), Offer(2, 1, MinimumStake + 1),
           Offer(1, 0, MinimumStake - 1)}

\* Proposers.registerProposer: a new identity joins the rotation, just behind the current
\* proposer, and becomes current if there was none; its stake is added to its account
\* (cap: the amount an account is let grow to)
registerProposer(sender, offer, cap) ==
  IF proposers[sender].thisAddress # ZeroAddress \/ offer.stake < MinimumStake
    THEN UNCHANGED <<proposers, currentProposer, bondAccounts, lastCall>>
  ELSE IF currentProposer.thisAddress = ZeroAddress
    THEN /\ bondAccounts[sender].amount + offer.stake <= cap
         /\ proposers' = setProposer(proposers, sender,
                           LinkedAddress(sender, sender, sender, offer.url, offer.fee))
         /\ currentProposer' = setCurrentProposer(proposers', sender)
         /\ bondAccounts' = setBondAccount(bondAccounts, sender,
                                           bondAccounts[sender].amount + offer.stake)
         /\ lastCall' = Succeeded("registerProposer", sender,
                                  <<Event("NewCurrentProposer", sender)>>,
                                  [proposer |-> sender, offer |-> offer])
  ELSE LET current == proposers[currentProposer.thisAddress]
           new == LinkedAddress(sender, current.previousAddress, current.thisAddress,
                                offer.url, offer.fee)
           inserted == setProposer(proposers, sender, new)
           behind == [inserted EXCEPT ![current.previousAddress].nextAddress = sender]
       IN  /\ bondAccounts[sender].amount + offer.stake <= cap
           /\ proposers' = [behind EXCEPT ![current.thisAddress].previousAddress = sender]
           /\ currentProposer' = setCurrentProposer(proposers', current.thisAddress)
           /\ bondAccounts' = setBondAccount(bondAccounts, sender,
                                             bondAccounts[sender].amount + offer.stake)
           /\ lastCall' = Succeeded("registerProposer", sender, <<>>,
                                    [proposer |-> sender, offer |-> offer])

\* a call of registerProposer by one of the senders, with one of the offers
RegisterProposerFrom(senders, offers, cap) ==
  /\ \E sender \in senders, offer \in offers : registerProposer(sender, offer, cap)
  /\ UNCHANGED <<blockHashes, feeBook, pendingWithdrawals>>
  /\ UNCHANGED <<wvars, avars, nvars>>

\* in the specification of the rotation every account registers, with the minimum stake,
\* and registers again once its bond was paid out
RegisterProposer ==
  RegisterProposerFrom(Addresses, {Offer(1, 0, MinimumStake)}, MinimumStake)

\* in the specification of the block list two accounts register, with the minimum stake;
\* the others only call
BlockProposers == {1, 2}
RegisterBlockProposer ==
  RegisterProposerFrom(BlockProposers, {Offer(1, 0, MinimumStake)}, MinimumStake)

\* in the specification of the registrations two accounts register, again and again, with
\* any offer
RegisterOffer == RegisterProposerFrom(BlockProposers, Offers, MaxBond)

\* Proposers.changeCurrentProposer: the turn passes to the next entry of the rotation
ChangeCurrentProposer ==
  /\ currentProposer' = proposers[currentProposer.nextAddress]
  /\ lastCall' = Succeeded("changeCurrentProposer", proposersAddress,
                           <<Event("NewCurrentProposer", currentProposer.nextAddress)>>, NoArgs)
  /\ UNCHANGED <<blockHashes, proposers, feeBook, bondAccounts, pendingWithdrawals>>
  /\ UNCHANGED <<wvars, avars, nvars>>

(***************************************************************************)
(* The setters of State.sol, called one by one by any of the callers.  Of  *)
(* these calls only emitRollback, which does nothing but emit its event,   *)
(* leaves a receipt in lastCall.                                           *)
(***************************************************************************)
\* the account the setters are called for
SetterAddresses == {1}

\* lines 261-263
EmitRollback(sender) ==
  /\ \E blockNumberL2ToRollbackTo \in {0} :
       IF ~onlyRegistered(sender)
         THEN UNCHANGED lastCall
         ELSE lastCall' = Succeeded("emitRollback", sender,
                                    <<Event("Rollback", blockNumberL2ToRollbackTo)>>, NoArgs)
  /\ UNCHANGED <<blockHashes, proposers, currentProposer, feeBook, bondAccounts,
                 pendingWithdrawals>>
  /\ UNCHANGED <<wvars, avars, nvars>>

\* lines 265-267
SetProposer(sender) ==
  /\ \E addr \in SetterAddresses :
       IF ~onlyProposer(sender)
         THEN UNCHANGED proposers
         ELSE proposers' = setProposer(proposers, addr, LinkedAddress(addr, addr, addr, 1, 0))
  /\ UNCHANGED <<blockHashes, currentProposer, feeBook, bondAccounts, pendingWithdrawals,
                 lastCall>>
  /\ UNCHANGED <<wvars, avars, nvars>>

\* lines 273-275
SetCurrentProposer(sender) ==
  /\ \E proposer \in SetterAddresses :
       IF ~onlyProposer(sender)
         THEN UNCHANGED currentProposer
         ELSE currentProposer' = setCurrentProposer(proposers, proposer)
  /\ UNCHANGED <<blockHashes, proposers, feeBook, bondAccounts, pendingWithdrawals, lastCall>>
  /\ UNCHANGED <<wvars, avars, nvars>>

\* lines 290-293
ResetFeeBookInfo(sender) ==
  /\ \E proposer \in SetterAddresses, blockNumberL2 \in {0} :
       IF ~onlyShield(sender)
         THEN UNCHANGED feeBook
         ELSE feeBook' = [feeBook EXCEPT ![<<proposer, blockNumberL2>>] = <<0, 0>>]
  /\ UNCHANGED <<blockHashes, proposers, currentProposer, bondAccounts, pendingWithdrawals,
                 lastCall>>
  /\ UNCHANGED <<wvars, avars, nvars>>

\* lines 315-316
addPendingWithdrawal(pending, addr, amountEth, amountMatic) ==
  [pending EXCEPT ![addr] = <<@[1] + amountEth, @[2] + amountMatic>>]

\* lines 310-317
AddPendingWithdrawal(sender) ==
  /\ \E addr \in SetterAddresses, amountEth \in {1}, amountMatic \in {1} :
       IF ~onlyRegistered(sender)
         THEN UNCHANGED pendingWithdrawals
         ELSE /\ pendingWithdrawals[addr][1] + amountEth <= MaxPending
              /\ pendingWithdrawals[addr][2] + amountMatic <= MaxPending
              /\ pendingWithdrawals' =
                   addPendingWithdrawal(pendingWithdrawals, addr, amountEth, amountMatic)
  /\ UNCHANGED <<blockHashes, proposers, currentProposer, feeBook, bondAccounts, lastCall>>
  /\ UNCHANGED <<wvars, avars, nvars>>

\* lines 338-340
SetProposerStartBlock(sender) ==
  /\ \E sb \in {L1BlockNumber + 1} :
       IF ~onlyProposer(sender)
         THEN UNCHANGED proposerStartBlock
         ELSE proposerStartBlock' = sb
  /\ UNCHANGED svars
  /\ UNCHANGED <<wvars, avars, ovars, claimedBlockStakes, paid>>

\* lines 359-361
UpdateProposer(sender) ==
  /\ \E proposer \in SetterAddresses, url \in {2} :
       IF ~onlyProposer(sender)
         THEN UNCHANGED proposers
         ELSE proposers' = [proposers EXCEPT ![proposer].url = url]
  /\ UNCHANGED <<blockHashes, currentProposer, feeBook, bondAccounts, pendingWithdrawals,
                 lastCall>>
  /\ UNCHANGED <<wvars, avars, nvars>>

\* lines 411-413
SetBondAccount(sender) ==
  /\ \E addr \in SetterAddresses, amount \in {MinimumStake} :
       IF ~onlyProposer(sender)
         THEN UNCHANGED bondAccounts
         ELSE bondAccounts' = setBondAccount(bondAccounts, addr, amount)
  /\ UNCHANGED <<blockHashes, proposers, currentProposer, feeBook, pendingWithdrawals,
                 lastCall>>
  /\ UNCHANGED <<wvars, avars, nvars>>

\* lines 430-434
UpdateBondAccountTime(sender) ==
  /\ \E addr \in SetterAddresses, time \in {1} :
       IF ~onlyProposer(sender)
         THEN UNCHANGED bondAccounts
         ELSE bondAccounts' = [bondAccounts EXCEPT ![addr].time = time]
  /\ UNCHANGED <<blockHashes, proposers, currentProposer, feeBook, pendingWithdrawals,
                 lastCall>>
  /\ UNCHANGED <<wvars, avars, nvars>>

\* lines 440-442
SetBlockStakeWithdrawn(sender) ==
  /\ \E blockHash \in {ZeroHash} :
       IF ~onlyRegistered(sender)
         THEN UNCHANGED claimedBlockStakes
         ELSE claimedBlockStakes' = claimedBlockStakes \cup {blockHash}
  /\ UNCHANGED svars
  /\ UNCHANGED <<wvars, avars, ovars, proposerStartBlock, paid>>

\* in the specification of the callers the blocks hold one transaction
ProposeOneTransaction == ProposeBlockOf({SubSeq(TxTemplate, 1, 1)})

\* the storage that only the setters below write holds what it held after construction
SettersPristine ==
  /\ proposerStartBlock # L1BlockNumber + 1
  /\ claimedBlockStakes = {}
  /\ \A a \in Addresses :
       /\ proposers[a].url # 2
       /\ bondAccounts[a].time = 0
       /\ pendingWithdrawals[a][2] = 0

\* The calls that leave a receipt read none of the storage of SettersPristine but the
\* url, which they copy: the setters of that storage are called before the first of them,
\* and they are called while that storage is as it was constructed.
CallersNext ==
  \/ \E sender \in ContractCallers : SetProposer(sender)
  \/ \E sender \in ContractCallers : SetCurrentProposer(sender)
  \/ \E sender \in ContractCallers : SetBondAccount(sender)
  \/ \E sender \in ContractCallers : ResetFeeBookInfo(sender)
  \/ lastCall = NoCall /\ \E sender \in ContractCallers : AddPendingWithdrawal(sender)
  \/ lastCall = NoCall /\ \E sender \in ContractCallers : SetProposerStartBlock(sender)
  \/ lastCall = NoCall /\ \E sender \in ContractCallers : UpdateProposer(sender)
  \/ lastCall = NoCall /\ \E sender \in ContractCallers : UpdateBondAccountTime(sender)
  \/ lastCall = NoCall /\ \E sender \in ContractCallers : SetBlockStakeWithdrawn(sender)
  \/ SettersPristine /\ \E sender \in ContractCallers : EmitRollback(sender)
  \/ SettersPristine /\ ProposeOneTransaction
  \/ SettersPristine /\ PopBlockData
  \/ SettersPristine /\ RemoveProposer
  \/ SettersPristine /\ RewardChallenger

(***************************************************************************)
(* State.withdraw.  A call is one transaction of the chain: it runs to its *)
(* end before another call starts, but for the calls that the receiver of  *)
(* the ETH makes while it is being paid.  The call is made while the       *)
(* contract is paused or not, the receiver takes the ETH, refuses it or    *)
(* calls withdraw again before it takes it, and the token contract makes   *)
(* the MATIC transfer or reverts.                                          *)
(***************************************************************************)
\* the accounts that are credited and paid
PayeeAddresses == {1, 2}

EthTransfers == {"received", "refused", "reentered"}
MaticTransfers == {"transferred", "reverted"}

\* the registered contracts credit an account; an account is credited MaxPending of a
\* currency at most, over all its credits
CreditPayee ==
  /\ \E addr \in PayeeAddresses, amountEth \in {0, 1}, amountMatic \in {0, 1} :
       /\ pendingWithdrawals[addr][1] + paid[addr][1] + amountEth <= MaxPending
       /\ pendingWithdrawals[addr][2] + paid[addr][2] + amountMatic <= MaxPending
       /\ pendingWithdrawals' =
            addPendingWithdrawal(pendingWithdrawals, addr, amountEth, amountMatic)
  /\ UNCHANGED <<blockHashes, proposers, currentProposer, feeBook, bondAccounts, lastCall>>
  /\ UNCHANGED <<wvars, avars, nvars>>

\* the amounts that a call of withdraw made by the receiver of the ETH pays: the modifier
\* nonReentrant reverts a call made while another one is entered, and a call that is let
\* in pays what is pending in the storage it finds
reentrantWithdraw(entered, pending, sender) ==
  IF entered THEN <<0, 0>> ELSE pending[sender]

\* lines 319-336, without the require of line 325
WithdrawUnchecked(sender, isPaused, ethTransfer, maticTransfer) ==
  LET amountEth == pendingWithdrawals[sender][1]
      amountMatic == pendingWithdrawals[sender][2]
      cleared == [pendingWithdrawals EXCEPT ![sender] = <<0, 0>>]
      inner == IF amountEth > 0 /\ ethTransfer = "reentered"
                 THEN reentrantWithdraw(TRUE, cleared, sender) ELSE <<0, 0>>
      sentEth == IF ethTransfer = "refused" THEN 0 ELSE amountEth
      reverted == \/ isPaused
                  \/ amountMatic > 0 /\ maticTransfer = "reverted"
  IN  /\ IF reverted
           THEN UNCHANGED <<pendingWithdrawals, paid>>
           ELSE /\ pendingWithdrawals' = cleared
                /\ paid' = [paid EXCEPT ![sender] =
                              <<@[1] + sentEth + inner[1], @[2] + amountMatic + inner[2]>>]
      /\ UNCHANGED <<blockHashes, proposers, currentProposer, feeBook, bondAccounts, lastCall>>
      /\ UNCHANGED <<wvars, avars, ovars, proposerStartBlock, claimedBlockStakes>>

\* lines 319-336
Withdraw(sender, isPaused, ethTransfer, maticTransfer) ==
  LET amountEth == pendingWithdrawals[sender][1]
      amountMatic == pendingWithdrawals[sender][2]
      cleared == [pendingWithdrawals EXCEPT ![sender] = <<0, 0>>]
      inner == IF amountEth > 0 /\ ethTransfer = "reentered"
                 THEN reentrantWithdraw(TRUE, cleared, sender) ELSE <<0, 0>>
      reverted == \/ isPaused
                  \/ amountEth > 0 /\ ethTransfer = "refused"
                  \/ amountMatic > 0 /\ maticTransfer = "reverted"
  IN  /\ IF reverted
           THEN UNCHANGED <<pendingWithdrawals, paid>>
           ELSE /\ pendingWithdrawals' = cleared
                /\ paid' = [paid EXCEPT ![sender] =
                              <<@[1] + amountEth + inner[1], @[2] + amountMatic + inner[2]>>]
      /\ UNCHANGED <<blockHashes, proposers, currentProposer, feeBook, bondAccounts, lastCall>>
      /\ UNCHANGED <<wvars, avars, ovars, proposerStartBlock, claimedBlockStakes>>

PaymentsNext ==
  \/ CreditPayee
  \/ \E sender \in PayeeAddresses, isPaused \in BOOLEAN, ethTransfer \in EthTransfers,
        maticTransfer \in MaticTransfers :
       Withdraw(sender, isPaused, ethTransfer, maticTransfer)

(***************************************************************************)
(* The optimist's admission of transactions                                *)
(* A transaction is its hashed fields (body) and the transactionHash it    *)
(* carries.  blockNumber is the L1 block of the TransactionSubmitted       *)
(* event, OFFCHAIN for the string 'offchain', NoBlockNumber for an absent  *)
(* or null one; mempool is TRUE on a transaction without the field, which  *)
(* is how saveTransaction stores it.  The handler is run on the main       *)
(* thread (no transaction workers).                                        *)
(***************************************************************************)
OFFCHAIN == -1
NoBlockNumber == 0
L1Blocks == {1}

\* the transactions clients build: a transfer, a deposit and a malformed transfer
TxBodies == {1, 2, 3}
isEscrowRequired(body) == body = 2
structurallyValid(body) == body # 3

\* transaction.mjs keccak, a free constructor over the hashed fields
calcHash(body) == [k |-> "transactionHash", body |-> body]
checkHash(transaction) == calcHash(transaction.body) = transaction.transactionHash

TxHashes == {calcHash(body) : body \in TxBodies}
\* the transactionHash of the L1 transaction that carried a TransactionSubmitted event
L1Hash == [k |-> "L1"]

\* the hashes a client may send with a body: its own, or that of the first transfer
SuppliedHashes(body) == {calcHash(body), calcHash(1)}
\* the transactions the anchor chain's events carry: they go through the handler alike,
\* whatever their circuit
EventBodies == {1, 3}

\* sendStatus is what the route answered when it queued the event, 0 for an event of the chain
EventParams(offchain, fromBlockProposer, body, transactionHash, blockNumber, sendStatus) ==
  [offchain |-> offchain, fromBlockProposer |-> fromBlockProposer, body |-> body,
   transactionHash |-> transactionHash, blockNumber |-> blockNumber, status |-> sendStatus]

Transaction(body, transactionHash, blockNumber, mempool) ==
  [body |-> body, transactionHash |-> transactionHash, blockNumber |-> blockNumber,
   mempool |-> mempool]

NoDocument == Transaction(0, L1Hash, NoBlockNumber, FALSE)

\* op: the route or the handler; transaction: the one the route received, or the one the
\* handler ended with; status: the route's answer (for a handler run, the answer its
\* event was queued with); steps: the calls submitTransaction made; error: what it caught
LastEvent(op, transaction, sendStatus, steps, error) ==
  [op |-> op, transaction |-> transaction, status |-> sendStatus, steps |-> steps,
   error |-> error]

AInit ==
  /\ transactions = <<>>
  /\ blocks = {}
  /\ eventQueue = <<>>
  /\ lastEvent = LastEvent("none", NoDocument, 0, <<>>, "")

\* database.mjs
getBlockByTransactionHash(transactionHash) == transactionHash \in blocks

indexOfTransaction(db, transactionHash) ==
  IF \E n \in 1..Len(db) : db[n].transactionHash = transactionHash
    THEN CHOOSE n \in 1..Len(db) : db[n].transactionHash = transactionHash
    ELSE 0

getTransactionByTransactionHash(transactionHash) ==
  IF indexOfTransaction(transactions, transactionHash) = 0 THEN NoDocument
  ELSE transactions[indexOfTransaction(transactions, transactionHash)]

\* saveTransaction that inserts a second document for a hash it already holds
saveTransactionInsert(db, transaction) == Append(db, transaction)

\* the collection is keyed by transactionHash: a hash it holds keeps its place
saveTransaction(db, transaction) ==
  IF indexOfTransaction(db, transaction.transactionHash) = 0
    THEN Append(db, transaction)
    ELSE [db EXCEPT ![indexOfTransaction(db, transaction.transactionHash)] = transaction]

getMempoolTransactions == SelectSeq(transactions, LAMBDA d : d.mempool)

\* transaction-checker.mjs: the hash is recomputed and compared, then the structure
checkTransaction(transaction) ==
  checkHash(transaction) /\ structurallyValid(transaction.body)

\* checkAlreadyInBlock that takes every transaction of a block for a re-mine
checkAlreadyInBlockNoReplay(_transaction) ==
  IF ~getBlockByTransactionHash(_transaction.transactionHash)
    THEN [threw |-> FALSE, transaction |-> _transaction]
    ELSE [threw |-> FALSE, transaction |-> [_transaction EXCEPT !.mempool = FALSE]]

\* checkAlreadyInBlock that leaves the mempool flag of a re-mine alone
checkAlreadyInBlockKeepMempool(_transaction) ==
  IF ~getBlockByTransactionHash(_transaction.transactionHash)
    THEN [threw |-> FALSE, transaction |-> _transaction]
  ELSE IF getTransactionByTransactionHash(_transaction.transactionHash).blockNumber
            # NoBlockNumber
    THEN [threw |-> TRUE, transaction |-> _transaction]
  ELSE [threw |-> FALSE, transaction |-> _transaction]

\* part_001 lines 37-60
checkAlreadyInBlock(_transaction) ==
  IF ~getBlockByTransactionHash(_transaction.transactionHash)
    THEN [threw |-> FALSE, transaction |-> _transaction]
  ELSE IF getTransactionByTransactionHash(_transaction.transactionHash).blockNumber
            # NoBlockNumber
    THEN [threw |-> TRUE, transaction |-> _transaction]
  ELSE [threw |-> FALSE, transaction |-> [_transaction EXCEPT !.mempool = FALSE]]

Submitted(db, transaction, steps, error) ==
  [db |-> db, transaction |-> transaction, steps |-> steps, error |-> error]

\* submitTransaction that checks every transaction before it saves it
submitTransactionCheckFirst(_transaction, fromBlockProposer) ==
  LET checked == checkAlreadyInBlock(_transaction)
      transaction == checked.transaction
  IN  IF checked.threw
        THEN Submitted(transactions, transaction, <<"checkAlreadyInBlock">>,
                       "This transaction has been processed previously")
      ELSE IF checkTransaction(transaction)
        THEN Submitted(saveTransaction(transactions, transaction), transaction,
                       <<"checkAlreadyInBlock", "checkTransaction", "saveTransaction">>, "")
      ELSE Submitted(transactions, transaction, <<"checkAlreadyInBlock", "checkTransaction">>,
                     "The transaction check failed")

\* part_001 lines 70-101: the collection it leaves, the calls it made and the error it caught
submitTransaction(_transaction, fromBlockProposer) ==
  LET checked == checkAlreadyInBlock(_transaction)
      transaction == checked.transaction
  IN  IF checked.threw
        THEN Submitted(transactions, transaction, <<"checkAlreadyInBlock">>,
                       "This transaction has been processed previously")
      ELSE IF fromBlockProposer
        THEN Submitted(saveTransaction(transactions, transaction), transaction,
                       <<"checkAlreadyInBlock", "saveTransaction", "checkTransaction">>,
                       IF checkTransaction(transaction) THEN ""
                       ELSE "The transaction check failed")
      ELSE IF checkTransaction(transaction)
        THEN Submitted(saveTransaction(transactions, transaction), transaction,
                       <<"checkAlreadyInBlock", "checkTransaction", "saveTransaction">>, "")
      ELSE Submitted(transactions, transaction, <<"checkAlreadyInBlock", "checkTransaction">>,
                     "The transaction check failed")

\* process-calldata.mjs: the transaction is decoded from the calldata and hashed
getTransactionSubmittedCalldata(data) ==
  [body |-> data.body, transactionHash |-> calcHash(data.body)]

\* part_001 lines 106-146
transactionSubmittedEventHandler(eventParams) ==
  LET decoded == IF eventParams.offchain
                   THEN [body |-> eventParams.body,
                         transactionHash |-> eventParams.transactionHash]
                   ELSE getTransactionSubmittedCalldata(eventParams)
      transaction == Transaction(decoded.body, decoded.transactionHash,
                                 IF eventParams.offchain THEN OFFCHAIN
                                 ELSE eventParams.blockNumber, TRUE)
  IN  submitTransaction(transaction, eventParams.fromBlockProposer)

\* the event queue runs the handler of its first entry
TransactionSubmittedEventHandler ==
  /\ Len(eventQueue) > 0
  /\ LET eventParams == Head(eventQueue)
         result == transactionSubmittedEventHandler(eventParams)
     IN  /\ transactions' = result.db
         /\ lastEvent' = LastEvent("transactionSubmittedEventHandler", result.transaction,
                                   eventParams.status, result.steps, result.error)
  /\ eventQueue' = Tail(eventQueue)
  /\ UNCHANGED blocks

\* the route without the check of the circuit
OffchainTransactionNoEscrowCheck ==
  /\ \E body \in TxBodies, fromBlockProposer \in BOOLEAN, contractThrows \in BOOLEAN :
     \E transactionHash \in SuppliedHashes(body) :
       LET eventParams ==
             EventParams(TRUE, fromBlockProposer, body, transactionHash, NoBlockNumber, 200)
           received == Transaction(body, transactionHash, NoBlockNumber, TRUE)
       IN  IF contractThrows
             THEN /\ lastEvent' = LastEvent("offchain-transaction", received, 400, <<>>, "")
                  /\ UNCHANGED eventQueue
             ELSE /\ Len(eventQueue) < MaxQueue
                  /\ eventQueue' = Append(eventQueue, eventParams)
                  /\ lastEvent' = LastEvent("offchain-transaction", received, 200, <<>>, "")
  /\ UNCHANGED <<transactions, blocks>>

\* proposer.mjs lines 909-948: the request body is spread into the eventParams
OffchainTransaction ==
  /\ \E body \in TxBodies, fromBlockProposer \in BOOLEAN, contractThrows \in BOOLEAN :
     \E transactionHash \in SuppliedHashes(body) :
       LET eventParams ==
             EventParams(TRUE, fromBlockProposer, body, transactionHash, NoBlockNumber, 200)
           received == Transaction(body, transactionHash, NoBlockNumber, TRUE)
       IN  IF contractThrows \/ isEscrowRequired(body)
             THEN /\ lastEvent' = LastEvent("offchain-transaction", received, 400, <<>>, "")
                  /\ UNCHANGED eventQueue
             ELSE /\ Len(eventQueue) < MaxQueue
                  /\ eventQueue' = Append(eventQueue, eventParams)
                  /\ lastEvent' = LastEvent("offchain-transaction", received, 200, <<>>, "")
  /\ UNCHANGED <<transactions, blocks>>

\* a TransactionSubmitted event of the anchor chain, or a transaction taken from a
\* proposed block (fromBlockProposer), is queued for the handler
TransactionSubmittedEvent ==
  /\ Len(eventQueue) < MaxQueue
  /\ \E body \in EventBodies, fromBlockProposer \in BOOLEAN, blockNumber \in L1Blocks :
       eventQueue' = Append(eventQueue,
                            EventParams(FALSE, fromBlockProposer, body, L1Hash, blockNumber, 0))
  /\ UNCHANGED <<transactions, blocks, lastEvent>>

\* a proposed block is stored: its transactions leave the mempool
BlockProposedEventHandler ==
  /\ \E transactionHash \in {calcHash(body) : body \in EventBodies} :
       /\ transactionHash \notin blocks
       /\ blocks' = blocks \cup {transactionHash}
       /\ transactions' =
            [n \in 1..Len(transactions) |->
               IF transactions[n].transactionHash = transactionHash
                 THEN [transactions[n] EXCEPT !.mempool = FALSE]
                 ELSE transactions[n]]
  /\ UNCHANGED <<eventQueue, lastEvent>>

\* a reorganisation of the anchor chain drops the L1 transaction of a stored transaction
RemoveTransactionSubmitted ==
  /\ \E n \in 1..Len(transactions) :
       /\ transactions[n].blockNumber \in L1Blocks
       /\ transactions' = [transactions EXCEPT ![n].blockNumber = NoBlockNumber]
  /\ UNCHANGED <<blocks, eventQueue, lastEvent>>

ANext ==
  \/ OffchainTransaction
  \/ TransactionSubmittedEvent
  \/ TransactionSubmittedEventHandler
  \/ BlockProposedEventHandler
  \/ RemoveTransactionSubmitted

ProposersNext ==
  \/ RegisterProposer
  \/ ChangeCurrentProposer
  \/ RemoveProposer
  \/ RewardChallenger

RegistrationNext ==
  \/ RegisterOffer
  \/ ChangeCurrentProposer
  \/ RemoveProposer

StateNext ==
  \/ ProposeBlock
  \/ PopBlockData
  \/ RegisterBlockProposer
  \/ ChangeCurrentProposer

BlockTreeNext ==
  \/ ProposeShortBlock
  \/ PopBlockData
  \/ RegisterBlockProposer
  \/ ChangeCurrentProposer

(***************************************************************************)
(* The optimist's /proposer/register route                                 *)
(* The optimist signs with one account, proposerEthAddress.  A request is  *)
(* the body of the POST: url (EmptyUrl for '' or none), stake and fee.     *)
(* The route queues the signed transaction; the queue sends it later, and  *)
(* only then does the contract see it.                                     *)
(***************************************************************************)
proposerEthAddress == 1
EmptyUrl == 0
NoRegistration == 0
MaxTxsQueue == 2          \* cap on the length of txsQueue

Request(url, stake, fee) == [url |-> url, stake |-> stake, fee |-> fee]

\* the bodies posted: no url, no stake, a stake below the minimum, and one with all three
RegisterRequests ==
  {Request(EmptyUrl, MinimumStake, 0), Request(1, 0, 0), Request(1, MinimumStake - 2, 0),
   Request(2, MinimumStake + 1, 1)}

NoRequest == Request(EmptyUrl, 0, 0)

\* createSignedTransaction: the signed call of registerProposer(url, fee) with its value
SignedTransaction(from, url, fee, value) ==
  [from |-> from, method |-> "registerProposer", url |-> url, fee |-> fee, value |-> value]

\* an empty object, whose transactionHash is undefined
NoSignedTransaction == [from |-> ZeroAddress, method |-> "", url |-> 0, fee |-> 0, value |-> 0]

Response(route, request, error, signedTx) ==
  [route |-> route, request |-> request, error |-> error, transactionHash |-> signedTx]

GInit ==
  /\ txsQueue = <<>>
  /\ registeredProposerInDb = NoRegistration
  /\ isMe = FALSE
  /\ lastResponse = Response("none", NoRequest, "", NoSignedTransaction)

\* services/proposer.mjs: the addresses registered with the contract
getProposers == {a \in Addresses : proposers[a].thisAddress # ZeroAddress}

\* lines 86-89
stakeOrMinimum(stake) == IF stake = 0 THEN MinimumStake ELSE stake

\* lines 80-92 without the test of the url
registerRequestErrorAnyUrl(request) ==
  IF stakeOrMinimum(request.stake) < MinimumStake
    THEN "Given stake is below minimum required"
  ELSE ""

\* lines 80-92: the validation of the body; "" when it passes
registerRequestError(request) ==
  IF request.url = EmptyUrl THEN "Rest API URL not provided"
  ELSE IF stakeOrMinimum(request.stake) < MinimumStake
    THEN "Given stake is below minimum required"
  ELSE ""

\* lines 108-135 without the test of line 108
transactionToSignAlways(request, isRegistered) ==
  SignedTransaction(proposerEthAddress, request.url, request.fee,
                    stakeOrMinimum(request.stake))

\* lines 104-135: the transaction the route signs and queues, none when the address is
\* registered with the contract
transactionToSign(request, isRegistered) ==
  IF ~isRegistered
    THEN SignedTransaction(proposerEthAddress, request.url, request.fee,
                           stakeOrMinimum(request.stake))
    ELSE NoSignedTransaction

\* lines 138-163: proposer.isMe after the route
isMeAfterRegister(isRegistered, inDb) ==
  IF ~inDb
    THEN IF isRegistered /\ proposerEthAddress = currentProposer.thisAddress
           THEN TRUE ELSE isMe
    ELSE IF proposerEthAddress = currentProposer.thisAddress /\ ~isMe THEN TRUE ELSE isMe

\* lines 72-170; the callback enqueued with 'Start Queue' only logs
RegisterRoute ==
  /\ \E request \in RegisterRequests :
       LET error == registerRequestError(request)
           isRegistered == proposerEthAddress \in getProposers
           inDb == registeredProposerInDb # NoRegistration
           signedTx == transactionToSign(request, isRegistered)
       IN  IF error # ""
             THEN /\ lastResponse' = Response("register", request, error, NoSignedTransaction)
                  /\ UNCHANGED <<txsQueue, registeredProposerInDb, isMe>>
             ELSE /\ IF signedTx # NoSignedTransaction
                       THEN /\ Len(txsQueue) < MaxTxsQueue
                            /\ txsQueue' = Append(txsQueue, signedTx)
                       ELSE UNCHANGED txsQueue
                  /\ registeredProposerInDb' =
                       IF ~inDb THEN request.url ELSE registeredProposerInDb
                  /\ isMe' = isMeAfterRegister(isRegistered, inDb)
                  /\ lastResponse' = Response("register", request, "", signedTx)
  /\ UNCHANGED <<wvars, svars, avars, rvars, tvars, kvars, cvars>>

\* lines 122-133: the queue sends its first transaction; a revert is logged
SendSignedTransaction ==
  /\ txsQueue # <<>>
  /\ Head(txsQueue).method = "registerProposer"
  /\ LET signedTx == Head(txsQueue) IN
       registerProposer(signedTx.from, Offer(signedTx.url, signedTx.fee, signedTx.value),
                        MaxBond)
  /\ txsQueue' = Tail(txsQueue)
  /\ UNCHANGED <<blockHashes, feeBook, pendingWithdrawals>>
  /\ UNCHANGED <<registeredProposerInDb, isMe, lastResponse>>
  /\ UNCHANGED <<wvars, avars, rvars, tvars, kvars, cvars>>

\* Proposers.deRegisterProposer: the contract of the proposers removes its caller, one of
\* the two accounts that register
DeRegisterProposer ==
  /\ \E proposer \in BlockProposers :
       /\ removeProposer(proposer)
       /\ lastCall' = Succeeded("removeProposer", proposersAddress,
                         <<Event("NewCurrentProposer", currentProposer'.thisAddress)>>,
                         [proposer |-> proposer,
                          wasCurrent |-> currentProposer.thisAddress = proposer])
  /\ UNCHANGED <<blockHashes, feeBook, bondAccounts, pendingWithdrawals>>
  /\ UNCHANGED <<wvars, avars, ovars, claimedBlockStakes, paid>>

RegisterRouteNext ==
  \/ RegisterRoute
  \/ SendSignedTransaction
  \/ RegisterOffer
  \/ DeRegisterProposer
  \/ ChangeCurrentProposer

(***************************************************************************)
(* The optimist's /proposer/update and /proposer/de-register routes        *)
(* Each queues a signed transaction with a callback: the callback sends    *)
(* the transaction and, when the sending has not thrown, writes the        *)
(* node's record of its registration.  The sending throws when the         *)
(* transaction is not mined or is reverted; the contract of the proposers  *)
(* reverts the transaction of an address that is not registered.           *)
(***************************************************************************)
\* the url that /update is asked to set, one that no registration has
UpdatedUrls == {3}

\* the bodies posted to /update: no url, and a url
UpdateRequests == {Request(EmptyUrl, 0, 0)} \cup {Request(url, 0, 0) : url \in UpdatedUrls}

\* createSignedTransaction for the calls of updateProposer and deRegisterProposer
SignedCall(from, method, url, fee, value) ==
  [from |-> from, method |-> method, url |-> url, fee |-> fee, value |-> value]

\* lines 202-250
UpdateRoute ==
  /\ \E request \in UpdateRequests :
       IF request.url = EmptyUrl
         THEN /\ lastResponse' = Response("update", request, "Rest API URL not provided",
                                          NoSignedTransaction)
              /\ UNCHANGED txsQueue
         ELSE LET signedTx == SignedCall(proposerEthAddress, "updateProposer", request.url,
                                         request.fee, request.stake)
              IN  /\ Len(txsQueue) < MaxTxsQueue
                  /\ txsQueue' = Append(txsQueue, signedTx)
                  /\ lastResponse' = Response("update", request, "", signedTx)
  /\ UNCHANGED <<registeredProposerInDb, isMe>>
  /\ UNCHANGED <<wvars, svars, avars, rvars, tvars, kvars, cvars>>

\* lines 336-377
DeRegisterRoute ==
  /\ LET signedTx == SignedCall(proposerEthAddress, "deRegisterProposer", 0, 0, 0) IN
       /\ Len(txsQueue) < MaxTxsQueue
       /\ txsQueue' = Append(txsQueue, signedTx)
       /\ lastResponse' = Response("de-register", NoRequest, "", signedTx)
  /\ UNCHANGED <<registeredProposerInDb, isMe>>
  /\ UNCHANGED <<wvars, svars, avars, rvars, tvars, kvars, cvars>>

\* the record written whether or not the sending has thrown
recordAfterSendEager(signedTx, sent, record) ==
  IF signedTx.method = "updateProposer" THEN signedTx.url ELSE NoRegistration

\* lines 232-246 and 356-370: the node's record after the callback of the queue
recordAfterSend(signedTx, sent, record) ==
  IF ~sent THEN record
  ELSE IF signedTx.method = "updateProposer" THEN signedTx.url
  ELSE NoRegistration

\* lines 232-246: the queue runs the callback of /update
SendUpdate(sent) ==
  /\ txsQueue # <<>>
  /\ Head(txsQueue).method = "updateProposer"
  /\ LET signedTx == Head(txsQueue) IN
       /\ sent => signedTx.from \in getProposers
       /\ proposers' = IF sent THEN [proposers EXCEPT ![signedTx.from].url = signedTx.url]
                               ELSE proposers
       /\ registeredProposerInDb' = recordAfterSend(signedTx, sent, registeredProposerInDb)
  /\ txsQueue' = Tail(txsQueue)
  /\ UNCHANGED <<blockHashes, currentProposer, feeBook, bondAccounts, pendingWithdrawals,
                 lastCall>>
  /\ UNCHANGED <<isMe, lastResponse>>
  /\ UNCHANGED <<wvars, avars, rvars, tvars, kvars, cvars>>

\* lines 356-370: the queue runs the callback of /de-register
SendDeRegister(sent) ==
  /\ txsQueue # <<>>
  /\ Head(txsQueue).method = "deRegisterProposer"
  /\ LET signedTx == Head(txsQueue) IN
       /\ sent => signedTx.from \in getProposers
       /\ IF sent
            THEN /\ removeProposer(signedTx.from)
                 /\ lastCall' = Succeeded("removeProposer", proposersAddress,
                                   <<Event("NewCurrentProposer", currentProposer'.thisAddress)>>,
                                   [proposer |-> signedTx.from,
                                    wasCurrent |->
                                      currentProposer.thisAddress = signedTx.from])
            ELSE UNCHANGED <<proposers, currentProposer, proposerStartBlock, lastCall>>
       /\ registeredProposerInDb' = recordAfterSend(signedTx, sent, registeredProposerInDb)
  /\ txsQueue' = Tail(txsQueue)
  /\ UNCHANGED <<blockHashes, feeBook, bondAccounts, pendingWithdrawals>>
  /\ UNCHANGED <<isMe, lastResponse>>
  /\ UNCHANGED <<wvars, avars, rvars, tvars, kvars, claimedBlockStakes, paid>>

ProposerRoutesNext ==
  \/ RegisterRoute
  \/ SendSignedTransaction
  \/ UpdateRoute
  \/ DeRegisterRoute
  \/ \E sent \in BOOLEAN : SendUpdate(sent)
  \/ \E sent \in BOOLEAN : SendDeRegister(sent)

(***************************************************************************)
(* The Merkle accumulator (Timber)                                         *)
(* Its state is the ordered leaves, their count, the frontier (one hash    *)
(* per level: the rightmost completed subtree of that level), the root and *)
(* the snapshots of the frontier taken before each batch.  The tree is as  *)
(* high as the leaves need; an empty subtree hashes to ZeroHash.           *)
(***************************************************************************)
NumTransactions == 3   \* transactions, and the commitments they produce and spend
MaxLeaves == 4         \* cap on the leaves of the accumulator

Leaf(c) == [k |-> "leaf", c |-> c]
LeafValues == {Leaf(c) : c \in 1..NumTransactions}

\* the height of the tree over n leaves
RECURSIVE timberHeightFrom(_, _)
timberHeightFrom(height, n) ==
  IF Pow2(height) < n THEN timberHeightFrom(height + 1, n) ELSE height

timberHeight(n) == timberHeightFrom(1, n)

TimberLevels == 0..timberHeight(MaxLeaves)

Timber(leaves, frontier, root, snapshots) ==
  [leaves |-> leaves, leafCount |-> Len(leaves), frontier |-> frontier, root |-> root,
   snapshots |-> snapshots]

EmptyTimber == Timber(<<>>, [l \in TimberLevels |-> ZeroHash], ZeroHash, {})

\* insertLeaf that hashes a node with its left sibling on the wrong side
RECURSIVE insertLeafSwapped(_, _, _, _)
insertLeafSwapped(frontier, node, index, level) ==
  IF index % 2 = 1
    THEN insertLeafSwapped(frontier, hashPair(node, frontier[level]), index \div 2, level + 1)
    ELSE [frontier EXCEPT ![level] = node]

\* one leaf: a node that is a right child is hashed with the frontier's slot of its level,
\* its left sibling, and the walk goes up; a node that is a left child is put in the slot
RECURSIVE insertLeaf(_, _, _, _)
insertLeaf(frontier, node, index, level) ==
  IF index % 2 = 1
    THEN insertLeaf(frontier, hashPair(frontier[level], node), index \div 2, level + 1)
    ELSE [frontier EXCEPT ![level] = node]

\* a batch of leaves, one after the other, from leaf count `count`
RECURSIVE insertLeaves(_, _, _)
insertLeaves(frontier, count, batch) ==
  IF batch = <<>> THEN frontier
  ELSE insertLeaves(insertLeaf(frontier, Head(batch), count, 0), count + 1, Tail(batch))

\* the root, from the frontier alone: `carry` is the hash of the subtree, not yet
\* completed, to the right of the completed ones (ZeroHash while it is empty)
RECURSIVE rootFromFrontier(_, _, _, _, _)
rootFromFrontier(frontier, carry, count, level, height) ==
  IF level = height THEN (IF count = 1 THEN frontier[height] ELSE carry)
  ELSE IF count % 2 = 1
    THEN rootFromFrontier(frontier, hashPair(frontier[level], carry), count \div 2,
                          level + 1, height)
    ELSE rootFromFrontier(frontier,
                          IF carry = ZeroHash THEN ZeroHash ELSE hashPair(carry, ZeroHash),
                          count \div 2, level + 1, height)

timberRoot(frontier, count) == rootFromFrontier(frontier, ZeroHash, count, 0, timberHeight(count))

\* append(leaves): the snapshot of the frontier is taken before the leaves go in
append(tree, batch) ==
  IF batch = <<>> THEN tree
  ELSE LET frontier == insertLeaves(tree.frontier, tree.leafCount, batch)
           leaves == tree.leaves \o batch
       IN  Timber(leaves, frontier, timberRoot(frontier, Len(leaves)),
                  tree.snapshots
                    \cup {[leafCount |-> tree.leafCount, frontier |-> tree.frontier]})

\* rewind that keeps the frontier it has
rewindKeepFrontier(tree, toLeafCount) ==
  IF toLeafCount >= tree.leafCount THEN tree
  ELSE Timber(SubSeq(tree.leaves, 1, toLeafCount), tree.frontier,
              timberRoot(tree.frontier, toLeafCount),
              {s \in tree.snapshots : s.leafCount < toLeafCount})

\* rewind(toLeafCount): the leaves beyond the count are dropped and the frontier is the
\* snapshot taken at that count
rewind(tree, toLeafCount) ==
  IF toLeafCount >= tree.leafCount
       \/ ~(\E s \in tree.snapshots : s.leafCount = toLeafCount)
    THEN tree
  ELSE LET snapshot == CHOOSE s \in tree.snapshots : s.leafCount = toLeafCount
       IN  Timber(SubSeq(tree.leaves, 1, toLeafCount), snapshot.frontier,
                  timberRoot(snapshot.frontier, toLeafCount),
                  {s \in tree.snapshots : s.leafCount < toLeafCount})

\* the batches appended: one leaf or two
LeafBatches ==
  {<<a>> : a \in LeafValues} \cup {<<a, b>> : a \in LeafValues, b \in LeafValues}

TimberAppend ==
  /\ \E batch \in LeafBatches :
       /\ timber.leafCount + Len(batch) <= MaxLeaves
       /\ timber' = append(timber, batch)
  /\ UNCHANGED <<l2blocks, pool, commitmentState, history, lastOp>>

TimberRewind ==
  /\ \E toLeafCount \in 0..timber.leafCount : timber' = rewind(timber, toLeafCount)
  /\ UNCHANGED <<l2blocks, pool, commitmentState, history, lastOp>>

TimberNext == TimberAppend \/ TimberRewind

(***************************************************************************)
(* The optimist's blocks, its pool and the Rollback signal              *)
(* Transaction t spends commitment t and produces the leaf Leaf(t).  The   *)
(* stored blocks are numbered from 1; Rollback(n) discards the blocks      *)
(* after block n.                                                          *)
(***************************************************************************)
TransactionIds == 1..NumTransactions
BlockSize == 2         \* transactions a block of the optimist holds at most

Available == [state |-> "available", nullifiedBy |-> 0]
Nullified(t) == [state |-> "nullified", nullifiedBy |-> t]

L2Block(txs, leafCount) == [transactions |-> txs, leafCount |-> leafCount]

NodeState(bl, mp, tb, cs) ==
  [l2blocks |-> bl, pool |-> mp, timber |-> tb, commitmentState |-> cs]

NoOp == [op |-> "none", n |-> 0]

RInit ==
  /\ l2blocks = <<>>
  /\ pool = <<>>
  /\ timber = EmptyTimber
  /\ commitmentState = [c \in TransactionIds |-> Available]
  /\ history = <<>>
  /\ lastOp = NoOp

Range(seq) == {seq[i] : i \in 1..Len(seq)}

RECURSIVE leavesOf(_)
leavesOf(txs) == IF txs = <<>> THEN <<>> ELSE <<Leaf(Head(txs))>> \o leavesOf(Tail(txs))

\* a transaction is built, its commitment marked nullified (4.1 confirmSpent), and admitted
AdmitTransaction ==
  /\ \E t \in TransactionIds :
       /\ commitmentState[t] = Available
       /\ t \notin Range(pool)
       /\ \A i \in 1..Len(l2blocks) : t \notin Range(l2blocks[i].transactions)
       /\ commitmentState' = [commitmentState EXCEPT ![t] = Nullified(t)]
       /\ pool' = Append(pool, t)
       /\ lastOp' = [op |-> "admit", n |-> t]
  /\ UNCHANGED <<l2blocks, timber, history>>

\* 4.4: a block of the first transactions of the pool is confirmed: its leaves are
\* appended, its transactions leave the pool, their commitments are marked nullified
BlockConfirmed ==
  /\ Len(l2blocks) < MaxBlocks
  /\ \E size \in 1..BlockSize :
       /\ size <= Len(pool)
       /\ LET txs == SubSeq(pool, 1, size)
              appended == append(timber, leavesOf(txs))
          IN  /\ timber' = appended
              /\ l2blocks' = Append(l2blocks, L2Block(txs, appended.leafCount))
              /\ pool' = SubSeq(pool, size + 1, Len(pool))
              /\ commitmentState' =
                   [c \in TransactionIds |->
                      IF c \in Range(txs) THEN Nullified(c) ELSE commitmentState[c]]
              /\ history' = Append(history,
                                   NodeState(l2blocks', pool', timber', commitmentState'))
              /\ lastOp' = [op |-> "block", n |-> Len(l2blocks')]

\* the transactions of the blocks after block n, in the order of the blocks
RECURSIVE transactionsAfter(_, _)
transactionsAfter(bl, n) ==
  IF n >= Len(bl) THEN <<>> ELSE bl[n + 1].transactions \o transactionsAfter(bl, n + 1)

leafCountAsOf(bl, n) == IF n = 0 THEN 0 ELSE bl[n].leafCount

\* 4.5 if the signal discarded the last block, whatever its number
rollbackLastBlock(s, n) ==
  LET m == IF Len(s.l2blocks) = 0 THEN 0 ELSE Len(s.l2blocks) - 1
      discarded == transactionsAfter(s.l2blocks, m)
  IN  NodeState(SubSeq(s.l2blocks, 1, m),
                s.pool \o discarded,
                rewind(s.timber, leafCountAsOf(s.l2blocks, m)),
                [c \in TransactionIds |->
                   IF s.commitmentState[c].state = "nullified"
                        /\ s.commitmentState[c].nullifiedBy \in Range(discarded)
                     THEN Available ELSE s.commitmentState[c]])

\* 4.5: the handling of Rollback(n), on the state s of the node
rollback(s, n) ==
  LET discarded == transactionsAfter(s.l2blocks, n) IN
    NodeState(SubSeq(s.l2blocks, 1, n),
              s.pool \o discarded,
              rewind(s.timber, leafCountAsOf(s.l2blocks, n)),
              [c \in TransactionIds |->
                 IF s.commitmentState[c].state = "nullified"
                      /\ s.commitmentState[c].nullifiedBy \in Range(discarded)
                   THEN Available ELSE s.commitmentState[c]])

\* the Rollback event is handled, once or again
RollbackEventHandler ==
  /\ \E n \in 0..Len(l2blocks) :
       LET after == rollback(NodeState(l2blocks, pool, timber, commitmentState), n) IN
         /\ l2blocks' = after.l2blocks
         /\ pool' = after.pool
         /\ timber' = after.timber
         /\ commitmentState' = after.commitmentState
         /\ history' = SubSeq(history, 1, Len(after.l2blocks))
         /\ lastOp' = [op |-> "rollback", n |-> n, discarded |-> Len(l2blocks) - n]

RollbackNext == AdmitTransaction \/ BlockConfirmed \/ RollbackEventHandler

(***************************************************************************)
(* The Transaction class (common-files/classes/transaction.mjs)            *)
(*                                                                         *)
(* A JavaScript number is Num(n), the 32-byte hex string that generalise   *)
(* makes of it is Hex32(n), a missing argument is Undefined.  keccak over  *)
(* the ABI encoding is a free constructor over the encoded fields.         *)
(***************************************************************************)
Undefined == [undefined |-> TRUE]
Num(n) == [num |-> n]
Hex32(n) == [hex |-> n]

\* line 16
TOKEN_TYPES == [ERC20 |-> 0, ERC721 |-> 1, ERC1155 |-> 2]

tokenTypeOf(tokenType) ==
  IF tokenType \in DOMAIN TOKEN_TYPES THEN Num(TOKEN_TYPES[tokenType]) ELSE Undefined

\* JavaScript's (v || 0)
orZero(v) == IF v = Undefined \/ v = Num(0) THEN Num(0) ELSE v

\* generalise(...).all.hex(32), on a value and on an array of values
hex32(v) == Hex32(v.num)
hex32All(array) == [i \in 1..Len(array) |-> hex32(array[i])]

\* line 88: the flat proof of a transaction built without one
ZeroProof == [i \in 1..8 |-> Num(0)]

\* lines 19-24
arrayEquality(as, bs) ==
  IF Len(as) = Len(bs)
    THEN \A i \in 1..Len(as) : \E j \in 1..Len(bs) : bs[j] = as[i]
    ELSE FALSE

\* curves.mjs compressProof: an opaque encoding of the proof blob
compressProof(proof) == [compressed |-> proof]

\* utils.padArray: the array filled up with padWith to n entries
padArray(array, padWith, n) ==
  [i \in 1..(IF Len(array) < n THEN n ELSE Len(array)) |->
     IF i <= Len(array) THEN array[i] ELSE padWith]

\* lines 27-64 with the commitments and nullifiers hashed as sets
keccakUnordered(preimage) ==
  [k |-> "transaction",
   encoded |-> <<preimage.value, preimage.fee, preimage.transactionType, preimage.tokenType,
                 preimage.historicRootBlockNumberL2, preimage.tokenId, preimage.ercAddress,
                 preimage.recipientAddress,
                 {preimage.commitments[i] : i \in 1..Len(preimage.commitments)},
                 {preimage.nullifiers[i] : i \in 1..Len(preimage.nullifiers)},
                 preimage.compressedSecrets,
                 IF arrayEquality(preimage.proof, ZeroProof)
                   THEN <<Num(0), Num(0), Num(0), Num(0)>>
                   ELSE compressProof(preimage.proof)>>]

\* lines 27-64
keccak(preimage) ==
  [k |-> "transaction",
   encoded |-> <<preimage.value, preimage.fee, preimage.transactionType, preimage.tokenType,
                 preimage.historicRootBlockNumberL2, preimage.tokenId, preimage.ercAddress,
                 preimage.recipientAddress, preimage.commitments, preimage.nullifiers,
                 preimage.compressedSecrets,
                 IF arrayEquality(preimage.proof, ZeroProof)
                   THEN <<Num(0), Num(0), Num(0), Num(0)>>
                   ELSE compressProof(preimage.proof)>>]

\* proof.mjs flatProof: the eight words of a proof object
flatProof(proof) == proof.flat

\* lines 100-101: 'Unrecognized token type'
constructorThrows(a) ==
  /\ a.transactionType \in {Num(0), Num(2)}
  /\ tokenTypeOf(a.tokenType) = Undefined

\* lines 86-117: the preimage, before its hash is attached
preimageOf(a) ==
  [value |-> hex32(orZero(a.value)),
   fee |-> hex32(orZero(a.fee)),
   transactionType |-> hex32(orZero(a.transactionType)),
   tokenType |-> hex32(orZero(tokenTypeOf(a.tokenType))),
   historicRootBlockNumberL2 |->
     hex32All(padArray(a.historicRootBlockNumberL2, Num(0), a.numberNullifiers)),
   tokenId |-> hex32(orZero(a.tokenId)),
   ercAddress |-> hex32(orZero(a.ercAddress)),
   recipientAddress |-> hex32(orZero(a.recipientAddress)),
   commitments |->
     LET padded == padArray(a.commitments, [hash |-> Num(0)], a.numberCommitments)
     IN  hex32All([i \in 1..Len(padded) |-> padded[i].hash]),
   nullifiers |->
     LET padded == padArray(a.nullifiers, [hash |-> Num(0)], a.numberNullifiers)
     IN  hex32All([i \in 1..Len(padded) |-> padded[i].hash]),
   compressedSecrets |->
     hex32All(IF a.compressedSecrets = <<>>
                THEN <<Num(0), Num(0)>> ELSE a.compressedSecrets),
   proof |-> hex32All(IF a.proof = Undefined THEN ZeroProof ELSE flatProof(a.proof))]

\* lines 70-123
TransactionConstructor(a) ==
  LET preimage == preimageOf(a) IN
    [value |-> preimage.value, fee |-> preimage.fee,
     transactionType |-> preimage.transactionType, tokenType |-> preimage.tokenType,
     historicRootBlockNumberL2 |-> preimage.historicRootBlockNumberL2,
     tokenId |-> preimage.tokenId, ercAddress |-> preimage.ercAddress,
     recipientAddress |-> preimage.recipientAddress,
     commitments |-> preimage.commitments, nullifiers |-> preimage.nullifiers,
     compressedSecrets |-> preimage.compressedSecrets, proof |-> preimage.proof,
     transactionHash |-> keccak(preimage)]

\* lines 125-129
TransactionCheckHash(tx) == keccak(tx) = tx.transactionHash

NoArguments == [none |-> TRUE]
NoPreimage == [none |-> TRUE]

TInit ==
  /\ arguments = NoArguments
  /\ built = NoPreimage
  /\ held = NoPreimage
  /\ checkHashResult = FALSE

\* the arguments the constructor is called with; compressedSecrets left out is <<>>,
\* which line 97 treats alike
hashObjects(hashes) == [i \in 1..Len(hashes) |-> [hash |-> Num(hashes[i])]]

ProofBlob == [flat |-> [i \in 1..8 |-> Num(i % 3)]]

ConstructorArguments ==
  {[fee |-> Num(1), historicRootBlockNumberL2 |-> [i \in 1..Len(nullifiers) |-> Num(i)],
    transactionType |-> transactionType, tokenType |-> tokenType, tokenId |-> Undefined,
    value |-> value, ercAddress |-> Undefined, recipientAddress |-> Undefined,
    commitments |-> hashObjects(commitments), nullifiers |-> hashObjects(nullifiers),
    compressedSecrets |-> compressedSecrets, proof |-> proof,
    numberNullifiers |-> numberNullifiers, numberCommitments |-> numberCommitments] :
     transactionType \in {Undefined, Num(0), Num(1)},
     tokenType \in {"ERC20", "undefined"},
     value \in {Undefined, Num(1)},
     commitments \in {<<>>, <<1>>, <<1, 2>>},
     nullifiers \in {<<>>, <<1, 2>>},
     compressedSecrets \in {<<>>, <<Num(1), Num(2)>>},
     proof \in {Undefined, ProofBlob},
     numberNullifiers \in 2..MaxArity,
     numberCommitments \in 2..MaxArity}

\* new Transaction(...), and checkHash on what it returned
NewTransaction ==
  /\ built = NoPreimage
  /\ \E a \in ConstructorArguments :
       /\ ~constructorThrows(a)
       /\ arguments' = a
       /\ built' = TransactionConstructor(a)
       /\ held' = built'
       /\ checkHashResult' = TransactionCheckHash(held')

\* the fields keccak hashes
ScalarFields == {"value", "fee", "transactionType", "tokenType", "tokenId", "ercAddress",
                 "recipientAddress"}
ArrayFields == {"historicRootBlockNumberL2", "commitments", "nullifiers",
                "compressedSecrets", "proof"}
OrderedFields == {"commitments", "nullifiers"}

\* another value in the place of v
otherThan(v) == Hex32((v.hex + 1) % 3)

\* the transaction with one hashed field, or one entry of one, changed, or with two
\* different commitments or nullifiers exchanged; transactionHash is left as it was
Tampered(tx) ==
  {[tx EXCEPT ![f] = otherThan(@)] : f \in ScalarFields}
    \cup UNION {{[tx EXCEPT ![f][i] = otherThan(@)] : i \in 1..Len(tx[f])} : f \in ArrayFields}
    \cup UNION {{[tx EXCEPT ![f][i] = tx[f][j], ![f][j] = tx[f][i]] :
                   i \in 1..Len(tx[f]), j \in 1..Len(tx[f])} : f \in OrderedFields}

\* the transaction reaches checkHash changed on its way
TamperTransaction ==
  /\ built # NoPreimage
  /\ held = built
  /\ \E tx \in Tampered(built) :
       /\ tx # built
       /\ held' = tx
       /\ checkHashResult' = TransactionCheckHash(tx)
  /\ UNCHANGED <<arguments, built>>

\* the transaction is done with
DropTransaction ==
  /\ built # NoPreimage
  /\ arguments' = NoArguments
  /\ built' = NoPreimage
  /\ held' = NoPreimage
  /\ checkHashResult' = FALSE

TransactionNext == NewTransaction \/ TamperTransaction \/ DropTransaction

(***************************************************************************)
(* The handler of TransactionSubmitted with transaction workers enabled    *)
(* (part_001 lines 127-141): the transaction is sent to a worker with a    *)
(* request the handler does not wait for, and the event queue goes on to   *)
(* its next entry.  emitted and admitted record the order of the events    *)
(* and the order of the runs of submitTransaction.                         *)
(***************************************************************************)
KInit ==
  /\ inFlight = {}
  /\ emitted = <<>>
  /\ admitted = <<>>

\* the n-th TransactionSubmitted event of the anchor chain is queued
TransactionSubmittedEmitted ==
  /\ Len(eventQueue) < MaxQueue
  /\ Len(emitted) < MaxEvents
  /\ \E body \in EventBodies, fromBlockProposer \in BOOLEAN, blockNumber \in L1Blocks :
       LET eventParams == EventParams(FALSE, fromBlockProposer, body, L1Hash, blockNumber, 0)
       IN  /\ eventQueue' = Append(eventQueue, [n |-> Len(emitted) + 1, params |-> eventParams])
           /\ emitted' = Append(emitted, eventParams)
  /\ UNCHANGED <<transactions, blocks, lastEvent, inFlight, admitted>>

\* lines 106-116 and 127-134: the handler of the first entry decodes the transaction,
\* sends the request to the worker and returns
DispatchToWorker ==
  /\ Len(eventQueue) > 0
  /\ LET event == Head(eventQueue)
         decoded == getTransactionSubmittedCalldata(event.params)
         tx == Transaction(decoded.body, decoded.transactionHash, event.params.blockNumber, TRUE)
     IN  inFlight' = inFlight \cup {[n |-> event.n, tx |-> tx,
                                     proposerFlag |-> event.params.fromBlockProposer = TRUE]}
  /\ eventQueue' = Tail(eventQueue)
  /\ UNCHANGED <<transactions, blocks, lastEvent, emitted, admitted>>

\* a request in flight has its transaction admitted
requestAdmitted(request, op) ==
  LET result == submitTransaction(request.tx, request.proposerFlag) IN
    /\ transactions' = result.db
    /\ lastEvent' = LastEvent(op, result.transaction, 0, result.steps, result.error)
    /\ admitted' = Append(admitted, request.n)
    /\ inFlight' = inFlight \ {request}
    /\ UNCHANGED <<blocks, eventQueue, emitted>>

\* the worker's /tx-submitted: a request that reached the worker is handled there, once
WorkerTxSubmitted ==
  \E request \in inFlight :
    /\ request.n \notin {admitted[i] : i \in 1..Len(admitted)}
    /\ requestAdmitted(request, "tx-submitted")

\* the worker handles the request, but its answer is an error status or does not arrive:
\* the request is still to be settled by the catch of the main thread
WorkerTxSubmittedUnanswered ==
  \E request \in inFlight :
    /\ request.n \notin {admitted[i] : i \in 1..Len(admitted)}
    /\ LET result == submitTransaction(request.tx, request.proposerFlag) IN
         /\ transactions' = result.db
         /\ lastEvent' = LastEvent("tx-submitted", result.transaction, 0, result.steps,
                                   result.error)
         /\ admitted' = Append(admitted, request.n)
    /\ UNCHANGED <<blocks, eventQueue, emitted, inFlight>>

\* lines 135-141: the request was rejected before it was sent, the error has no request
\* and the catch only logs
WorkerRequestNotSent ==
  /\ \E request \in inFlight :
       /\ request.n \notin {admitted[i] : i \in 1..Len(admitted)}
       /\ inFlight' = inFlight \ {request}
  /\ UNCHANGED <<transactions, blocks, eventQueue, lastEvent, emitted, admitted>>

\* lines 106-116 and 142-145: the workers are disabled, by their count or by the flag of
\* setWorkerEnable, and the handler of the first entry submits the transaction itself
HandleOnMainThread ==
  /\ Len(eventQueue) > 0
  /\ LET event == Head(eventQueue)
         decoded == getTransactionSubmittedCalldata(event.params)
         tx == Transaction(decoded.body, decoded.transactionHash, event.params.blockNumber, TRUE)
         result == submitTransaction(tx, event.params.fromBlockProposer)
     IN  /\ transactions' = result.db
         /\ lastEvent' = LastEvent("main", result.transaction, 0, result.steps, result.error)
         /\ admitted' = Append(admitted, event.n)
  /\ eventQueue' = Tail(eventQueue)
  /\ UNCHANGED <<blocks, emitted, inFlight>>

\* lines 135-141: the request failed and the main thread submits the transaction itself
WorkerRequestFailed == \E request \in inFlight : requestAdmitted(request, "catch")

WorkersNext ==
  \/ TransactionSubmittedEmitted
  \/ DispatchToWorker
  \/ WorkerTxSubmitted
  \/ WorkerRequestFailed
  \/ WorkerTxSubmittedUnanswered
  \/ WorkerRequestNotSent
  \/ HandleOnMainThread

Init == WInit /\ SInit /\ AInit /\ GInit /\ RInit /\ TInit /\ KInit

SpecWithdraw == Init /\ [][WNext /\ UNCHANGED <<svars, avars, nvars>>]_vars

SpecProposers == Init /\ [][ProposersNext]_vars

SpecState == Init /\ [][StateNext]_vars

SpecBlockTree == Init /\ [][BlockTreeNext]_vars

SpecRegistration == Init /\ [][RegistrationNext]_vars

SpecAdmission == Init /\ [][ANext /\ UNCHANGED <<wvars, svars, nvars>>]_vars

SpecRegisterRoute == Init /\ [][RegisterRouteNext]_vars

SpecAccumulator == Init /\ [][TimberNext /\ UNCHANGED <<wvars, svars, avars, gvars, tvars, kvars, cvars>>]_vars

SpecTransaction ==
  Init /\ [][TransactionNext /\ UNCHANGED <<wvars, svars, avars, gvars, rvars, kvars, cvars>>]_vars

SpecWorkers ==
  Init /\ [][WorkersNext /\ UNCHANGED <<wvars, svars, gvars, rvars, tvars, cvars>>]_vars

SpecCallers == Init /\ [][CallersNext]_vars

SpecPayments == Init /\ [][PaymentsNext]_vars

SpecProposerRoutes == Init /\ [][ProposerRoutesNext]_vars

SpecRollback == Init /\ [][RollbackNext /\ UNCHANGED <<wvars, svars, avars, gvars, tvars, kvars, cvars>>]_vars

(***************************************************************************)
(* Properties of withdraw and the commitment allocator                     *)
(***************************************************************************)
\* a call is between the return of findUsableCommitmentsMutex and its own exit
HoldingPcs == {"sibling", "contract", "encode", "mark", "catch"}
FinishedPcs == {"done", "failed"}

\* C1: no two withdraw calls hold the same commitment as pending at the same time:
\* two calls that have reserved and not yet finished never have the same oldCommitment.
C1_NoDoubleSelection ==
  \A i \in Calls : \A j \in Calls :
    (i # j /\ wpc[i] \in HoldingPcs /\ wpc[j] \in HoldingPcs)
      => oldCommitment[i] # oldCommitment[j]

\* two calls with the same query key and value hold reservations at the same time
C1_Witness ==
  \E i \in Calls : \E j \in Calls :
    /\ i # j
    /\ wparams[i] = wparams[j]
    /\ wpc[i] \in HoldingPcs /\ wpc[j] \in HoldingPcs
    /\ status[oldCommitment[i]] = "pending" /\ status[oldCommitment[j]] = "pending"

\* C2: after the withdraw call that reserved a commitment has finished, on any exit
\* path, the commitment is not pending any more (unless a later, still running call
\* has reserved it anew).
C2_NoStrandedPending ==
  \A i \in Calls :
    (wpc[i] \in FinishedPcs /\ oldCommitment[i] # 0 /\ status[oldCommitment[i]] = "pending")
      => \E j \in Calls : /\ j # i
                          /\ wpc[j] \in HoldingPcs
                          /\ oldCommitment[j] = oldCommitment[i]

\* C9: when building the raw transaction fails after a commitment was reserved, the
\* catch block runs clearPending and the commitment is available again when withdraw
\* exits; it can then be reserved again (the witness).
C9_ReleaseOnBuildFailure ==
  [][\A i \in Calls :
       (wpc[i] = "catch" /\ wpc'[i] # "catch")
         => /\ wpc'[i] = "failed"
            /\ status[oldCommitment[i]] = "pending"
            /\ status'[oldCommitment[i]] = "available"]_vars

\* a call failed while building, and another call with the same predicate now holds
\* the commitment the first one had reserved
C9_Witness ==
  \E i \in Calls : \E j \in Calls :
    /\ i # j
    /\ wpc[i] = "failed" /\ oldCommitment[i] # 0 /\ ~rawTransaction[i]
    /\ wparams[j] = wparams[i]
    /\ wpc[j] \in HoldingPcs
    /\ oldCommitment[j] = oldCommitment[i]
    /\ status[oldCommitment[j]] = "pending"

\* C10 as stated: a commitment is nullified only after its spending transaction has
\* been built and submitted for inclusion.
C10_NullifiedOnlyAfterSubmission ==
  \A c \in Commitments :
    status[c] = "nullified" => (nullifiedBy[c] # 0 /\ submitted[nullifiedBy[c]])

\* C10 amended: a commitment is nullified, with a back-reference to the spending
\* transaction, only after that transaction has been built (ABI-encoded) by a withdraw
\* call that returned normally; no call that failed has nullified anything.
C10_NullifiedOnlyAfterBuild ==
  /\ \A c \in Commitments :
       status[c] = "nullified"
         => /\ nullifiedBy[c] # 0
            /\ rawTransaction[nullifiedBy[c]]
            /\ wpc[nullifiedBy[c]] = "done"
            /\ oldCommitment[nullifiedBy[c]] = c
  /\ \A i \in Calls :
       wpc[i] \in {"catch", "failed"}
         => \A c \in Commitments : ~(status[c] = "nullified" /\ nullifiedBy[c] = i)

\* one call nullified its commitment and returned, another failed inside the try block
C10_Witness ==
  \E i \in Calls : \E j \in Calls :
    /\ wpc[i] = "done" /\ status[oldCommitment[i]] = "nullified"
    /\ nullifiedBy[oldCommitment[i]] = i
    /\ wpc[j] = "failed" /\ oldCommitment[j] # 0

(***************************************************************************)
(* Properties of the State contract                                        *)
(***************************************************************************)
Registered(a) == proposers[a].thisAddress = a /\ a # ZeroAddress

\* the step is a proposeBlock call that went through
ProposeBlockAccepted ==
  /\ lastCall'.op = "proposeBlock"
  /\ <<blockHashes, feeBook, lastCall>>' # <<blockHashes, feeBook, lastCall>>

\* the step is a removeProposer that went through, directly or from rewardChallenger
ProposerRemoved ==
  /\ lastCall'.op \in {"removeProposer", "rewardChallenger"}
  /\ <<proposers, currentProposer, bondAccounts, pendingWithdrawals, lastCall>>'
       # <<proposers, currentProposer, bondAccounts, pendingWithdrawals, lastCall>>

\* C3: the hash stored at index i is the hash of a block with blockNumberL2 = i whose
\* previousBlockHash, for i > 0, is the hash stored at index i - 1 (indices from 0).
C3_SequentialChain ==
  \A i \in 1..Len(blockHashes) :
    LET h == blockHashes[i].blockHash IN
      /\ h.k = "block"
      /\ h.b.blockNumberL2 = i - 1
      /\ (i > 1 => h.b.previousBlockHash = blockHashes[i - 1].blockHash)

\* the list is full again after a block of another proposer was popped at its last index
C3_Witness ==
  /\ Len(blockHashes) = MaxBlocks
  /\ lastCall.op = "proposeBlock"
  /\ \E a \in Addresses :
       /\ a # blockHashes[MaxBlocks].blockHash.b.proposer
       /\ feeBook[<<a, MaxBlocks - 1>>] # <<0, 0>>

\* the root of the tree over the transaction hashes, top down: a subtree of `size` leaves
\* starting at leaf `lo`, absent leaves being the zero hash
RECURSIVE subtreeHash(_, _, _)
subtreeHash(t, lo, size) ==
  IF size = 1
    THEN IF lo <= Len(t) THEN hashTransaction(t[lo]) ELSE ZeroHash
    ELSE LET left == subtreeHash(t, lo, size \div 2)
             right == subtreeHash(t, lo + (size \div 2), size \div 2)
         IN  IF left = ZeroHash /\ right = ZeroHash THEN ZeroHash ELSE hashPair(left, right)

MerkleRoot(t) == subtreeHash(t, 1, Pow2(getTreeHeight(Len(t))))

\* C4: every accepted block is stored as the digest of its slots, and the root it
\* carries is the root of the tree over the hashes of the transactions submitted with it.
C4_BlockHashAndRoot ==
  [][ProposeBlockAccepted
       => /\ blockHashes' = Append(blockHashes, [blockHash |-> hashBlock(lastCall'.args.b)])
          /\ lastCall'.args.b.transactionHashesRoot = MerkleRoot(lastCall'.args.t)]_vars

\* a block with a full list of transactions was accepted
C4_Witness ==
  /\ lastCall.op = "proposeBlock"
  /\ Len(lastCall.args.t) = TRANSACTIONS_PER_BLOCK
  /\ blockHashes # <<>>
  /\ blockHashes[Len(blockHashes)].blockHash.b.transactionHashesRoot = MerkleRoot(lastCall.args.t)

\* C5 as stated: once the contract has been called, currentProposer identifies exactly one
\* live registered proposer.
C5_ExactlyOneCurrent ==
  lastCall.op # "none" => Registered(currentProposer.thisAddress)

\* C5 amended: currentProposer.thisAddress is the zero address (nobody is current) or a
\* live registered proposer, never a removed or unknown address.
C5_CurrentIsZeroOrRegistered ==
  \/ currentProposer.thisAddress = ZeroAddress
  \/ /\ currentProposer.thisAddress \in Addresses
     /\ Registered(currentProposer.thisAddress)

\* a proposer was removed and the current proposer is one of those that remain
C5_Witness ==
  /\ lastCall.op \in {"removeProposer", "rewardChallenger"}
  /\ ~Registered(lastCall.args.proposer)
  /\ bondAccounts[lastCall.args.proposer].amount # 0
  /\ Registered(currentProposer.thisAddress)

\* C6 as stated: removing a registered proposer that is not current leaves the identity of
\* the current proposer unchanged.
C6_RemovalOfOtherKeepsCurrent ==
  [][(/\ ProposerRemoved
      /\ Registered(lastCall'.args.proposer)
      /\ lastCall'.args.proposer # currentProposer.thisAddress)
       => currentProposer'.thisAddress = currentProposer.thisAddress]_vars

\* C6 amended: removing a registered proposer p makes the entry that followed p in the
\* rotation the current proposer, whether or not p was current; nobody is current when p
\* was alone.
C6_RemovalMakesNextCurrent ==
  [][(ProposerRemoved /\ Registered(lastCall'.args.proposer))
       => LET p == lastCall'.args.proposer
              next == proposers[p].nextAddress
          IN  /\ currentProposer' = proposers'[next]
              /\ currentProposer'.thisAddress = (IF next = p THEN ZeroAddress ELSE next)]_vars

\* a proposer was removed from a rotation of three and two remain, one of them current
C6_Witness ==
  /\ lastCall.op = "removeProposer"
  /\ ~Registered(lastCall.args.proposer)
  /\ Registered(currentProposer.thisAddress)
  /\ Cardinality({a \in Addresses : Registered(a)}) >= 2

\* C7: blockHashes grows only by a proposeBlock call whose sender is the current proposer
\* and whose block names the sender as proposer; nothing else changes blockHashes but
\* popBlockData.
C7_OnlyCurrentProposer ==
  [][blockHashes' # blockHashes
       => \/ lastCall'.op = "popBlockData"
          \/ /\ lastCall'.op = "proposeBlock"
             /\ lastCall'.sender = currentProposer.thisAddress
             /\ Registered(lastCall'.sender)
             /\ lastCall'.args.b.proposer = lastCall'.sender
             /\ blockHashes'[Len(blockHashes')].blockHash.b.proposer = lastCall'.sender]_vars

\* a block of the current proposer was accepted while another proposer is registered
C7_Witness ==
  /\ lastCall.op = "proposeBlock"
  /\ lastCall.sender = currentProposer.thisAddress
  /\ \E a \in Addresses : a # lastCall.sender /\ Registered(a)

\* C8: a proposeBlock call goes through only if it is in order, names the last stored hash
\* as previous hash, pays at least BLOCK_STAKE and carries at most TRANSACTIONS_PER_BLOCK
\* transactions; it then appends exactly one block hash and emits exactly one
\* BlockProposed.  No other proposeBlock call changes blockHashes or feeBook.
C8_RevertsOrAppendsOne ==
  [][(lastCall'.op = "proposeBlock" /\ <<blockHashes, feeBook, lastCall>>' # <<blockHashes, feeBook, lastCall>>)
       => LET b == lastCall'.args.b
              t == lastCall'.args.t
          IN  /\ b.blockNumberL2 = Len(blockHashes)
              /\ (Len(blockHashes) # 0
                    => b.previousBlockHash = blockHashes[Len(blockHashes)].blockHash)
              /\ lastCall'.args.value >= BLOCK_STAKE
              /\ Len(t) <= TRANSACTIONS_PER_BLOCK
              /\ Len(blockHashes') = Len(blockHashes) + 1
              /\ SubSeq(blockHashes', 1, Len(blockHashes)) = blockHashes
              /\ lastCall'.events = <<Event("BlockProposed", 0)>>
              /\ \A key \in DOMAIN feeBook :
                   key # <<b.proposer, b.blockNumberL2>> => feeBook'[key] = feeBook[key]]_vars

\* a second block was accepted on top of the first
C8_Witness ==
  /\ lastCall.op = "proposeBlock"
  /\ lastCall.args.b.blockNumberL2 = 1
  /\ Len(blockHashes) = 2
  /\ lastCall.events = <<Event("BlockProposed", 0)>>

(***************************************************************************)
(* Properties of the admission of transactions                             *)
(***************************************************************************)
\* a step of the queue that runs the handler on its first entry
HandlerStep ==
  /\ Len(eventQueue) > 0
  /\ eventQueue' = Tail(eventQueue)
  /\ lastEvent'.op = "transactionSubmittedEventHandler"

HandlerRan == lastEvent.op = "transactionSubmittedEventHandler"

\* the hash and the fields the handler gives to submitTransaction for an entry of the queue
incomingHash(eventParams) ==
  IF eventParams.offchain THEN eventParams.transactionHash ELSE calcHash(eventParams.body)

storedBlockNumber(transactionHash) ==
  getTransactionByTransactionHash(transactionHash).blockNumber

ReplayError == "This transaction has been processed previously"

\* C11: a transaction whose hash is in a block and whose stored record has a block number
\* is rejected as a replay by every run of the handler: after the lookup nothing else is
\* called, and the transactions collection, the mempool with it, stays as it was
C11_ReplayRejected ==
  [][HandlerStep
       /\ incomingHash(Head(eventQueue)) \in blocks
       /\ storedBlockNumber(incomingHash(Head(eventQueue))) # NoBlockNumber
     => /\ lastEvent'.steps = <<"checkAlreadyInBlock">>
        /\ lastEvent'.error = ReplayError
        /\ transactions' = transactions]_vars

C11_Witness ==
  /\ HandlerRan
  /\ lastEvent.error = ReplayError
  /\ lastEvent.transaction.transactionHash \in blocks
  /\ storedBlockNumber(lastEvent.transaction.transactionHash) # NoBlockNumber

\* C12: a transaction whose hash is in a block but whose stored record has no block number
\* (a re-mine) goes on with mempool = false through the check and, if it is to be saved,
\* the save; afterwards no document of the mempool has its hash
C12_ReMineNotInMempool ==
  [][HandlerStep
       /\ incomingHash(Head(eventQueue)) \in blocks
       /\ storedBlockNumber(incomingHash(Head(eventQueue))) = NoBlockNumber
     => /\ lastEvent'.transaction.mempool = FALSE
        /\ \E n \in 1..Len(lastEvent'.steps) : lastEvent'.steps[n] = "checkTransaction"
        /\ (lastEvent'.error = ""
              => \E m \in 1..Len(transactions') :
                   transactions'[m] = lastEvent'.transaction)
        /\ \A n \in 1..Len(transactions') :
             transactions'[n].transactionHash = incomingHash(Head(eventQueue))
               => ~transactions'[n].mempool]_vars

C12_Witness ==
  /\ HandlerRan
  /\ lastEvent.error = ""
  /\ lastEvent.transaction.mempool = FALSE
  /\ lastEvent.transaction.transactionHash \in blocks
  /\ \E n \in 1..Len(transactions) : transactions[n] = lastEvent.transaction

mempoolHashes(db) ==
  LET mempool == SelectSeq(db, LAMBDA d : d.mempool)
  IN  [n \in 1..Len(mempool) |-> mempool[n].transactionHash]

\* C13: when the handler runs on a transaction identical to one that is stored, in the
\* mempool and in no block, a valid one is accepted, and the mempool afterwards holds the
\* same hashes in the same order, that of the transaction once
C13_ReinsertionIsNoOp ==
  [][HandlerStep
       /\ incomingHash(Head(eventQueue)) \notin blocks
       /\ (\E n \in 1..Len(transactions) :
             /\ transactions[n].transactionHash = incomingHash(Head(eventQueue))
             /\ transactions[n].body = Head(eventQueue).body
             /\ transactions[n].mempool)
     => /\ mempoolHashes(transactions') = mempoolHashes(transactions)
        /\ Cardinality({n \in 1..Len(transactions') :
                          /\ transactions'[n].transactionHash = incomingHash(Head(eventQueue))
                          /\ transactions'[n].mempool}) = 1
        /\ (checkTransaction(lastEvent'.transaction) => lastEvent'.error = "")]_vars

\* the first of two documents of the mempool was saved again, by the last run of the handler
C13_Witness ==
  /\ HandlerRan
  /\ lastEvent.error = ""
  /\ blocks = {}
  /\ Len(transactions) = 2
  /\ transactions[1].mempool /\ transactions[2].mempool
  /\ transactions[1] = lastEvent.transaction

\* C14: the hash is recomputed and compared before anything else uses the hash the
\* transaction came with: a transaction whose hash does not match its fields is rejected
\* without a lookup and without a save under that hash
C14_HashCheckedFirst ==
  [][HandlerStep /\ ~checkHash(lastEvent'.transaction)
     => /\ lastEvent'.error # ""
        /\ \A n \in 1..Len(lastEvent'.steps) :
             lastEvent'.steps[n] \notin {"checkAlreadyInBlock", "saveTransaction"}
        /\ transactions' = transactions]_vars

\* persisted before the check, and so whatever the check says
PersistedFirst ==
  /\ lastEvent'.steps = <<"checkAlreadyInBlock", "saveTransaction", "checkTransaction">>
  /\ \E n \in 1..Len(transactions') : transactions'[n] = lastEvent'.transaction

\* checked before it is persisted, and persisted only if the check passed
CheckedFirst ==
  \/ /\ lastEvent'.steps = <<"checkAlreadyInBlock", "checkTransaction", "saveTransaction">>
     /\ lastEvent'.error = ""
     /\ checkTransaction(lastEvent'.transaction)
  \/ /\ lastEvent'.steps = <<"checkAlreadyInBlock", "checkTransaction">>
     /\ lastEvent'.error # ""
     /\ transactions' = transactions

\* C15 as stated: a transaction of the anchor chain that is not a replay is persisted
\* before the check and stays stored when the check fails; an off-chain one is checked
\* first and never persisted when the check fails
C15_PersistFirstByOrigin ==
  [][HandlerStep /\ lastEvent'.error # ReplayError
     => IF Head(eventQueue).offchain THEN CheckedFirst ELSE PersistedFirst]_vars

\* C15 amended: it is the flag fromBlockProposer, whatever the origin, that has a
\* transaction persisted before the check; without the flag it is checked first and never
\* persisted when the check fails
C15_PersistFirstByFlag ==
  [][HandlerStep /\ lastEvent'.error # ReplayError
     => IF Head(eventQueue).fromBlockProposer THEN PersistedFirst ELSE CheckedFirst]_vars

C15_Witness ==
  /\ HandlerRan
  /\ lastEvent.steps = <<"checkAlreadyInBlock", "saveTransaction", "checkTransaction">>
  /\ lastEvent.error = "The transaction check failed"
  /\ \E n \in 1..Len(transactions) : transactions[n] = lastEvent.transaction

\* C16: the route answers 400 to a transaction whose circuit requires escrow and queues
\* nothing; no event of the queue and no stored transaction is an off-chain one of such a
\* circuit
C16_OffchainDepositRejected ==
  /\ [](/\ \A n \in 1..Len(eventQueue) :
             eventQueue[n].offchain => ~isEscrowRequired(eventQueue[n].body)
        /\ \A n \in 1..Len(transactions) :
             transactions[n].blockNumber = OFFCHAIN => ~isEscrowRequired(transactions[n].body))
  /\ [][/\ lastEvent' # lastEvent
        /\ lastEvent'.op = "offchain-transaction"
        /\ isEscrowRequired(lastEvent'.transaction.body)
        => /\ lastEvent'.status = 400
           /\ eventQueue' = eventQueue
           /\ transactions' = transactions]_vars

C16_Witness ==
  /\ lastEvent.op = "offchain-transaction"
  /\ isEscrowRequired(lastEvent.transaction.body)
  /\ lastEvent.status = 400

\* C17: an off-chain transaction that the admission rejected was not answered with a
\* success status
C17_RejectionNotified ==
  HandlerRan /\ lastEvent.error # "" => lastEvent.status # 200

(***************************************************************************)
(* Properties of registration and de-registration                          *)
(***************************************************************************)
RegisteredSet(ps) == {a \in Addresses : ps[a].thisAddress = a}

\* C18: removing the registered proposer that is current goes through: its entry is
\* deleted, its neighbours are linked to each other, and the entry that followed it is
\* announced by NewCurrentProposer and is current (nobody, when it followed itself)
C18_CurrentProposerRemoved ==
  [][(/\ ProposerRemoved
      /\ Registered(lastCall'.args.proposer)
      /\ lastCall'.args.proposer = currentProposer.thisAddress)
       => LET p == lastCall'.args.proposer
              previous == proposers[p].previousAddress
              next == proposers[p].nextAddress
          IN  /\ proposers'[p] = ZeroLinkedAddress
              /\ p \notin RegisteredSet(proposers')
              /\ IF next = p
                   THEN /\ currentProposer'.thisAddress = ZeroAddress
                        /\ lastCall'.events = <<Event("NewCurrentProposer", ZeroAddress)>>
                   ELSE /\ proposers'[previous].nextAddress = next
                        /\ proposers'[next].previousAddress = previous
                        /\ next \in RegisteredSet(proposers')
                        /\ currentProposer' = proposers'[next]
                        /\ currentProposer'.thisAddress = next
                        /\ lastCall'.events = <<Event("NewCurrentProposer", next)>>]_vars

\* the current proposer of a rotation of three was removed and the next one is current
C18_Witness ==
  /\ lastCall.op = "removeProposer"
  /\ lastCall.args.wasCurrent
  /\ lastCall.events = <<Event("NewCurrentProposer", currentProposer.thisAddress)>>
  /\ Registered(currentProposer.thisAddress)
  /\ Cardinality(RegisteredSet(proposers)) = 2
  /\ ~Registered(lastCall.args.proposer)
  /\ proposers[currentProposer.thisAddress].previousAddress # lastCall.args.proposer
  /\ proposers[currentProposer.thisAddress].previousAddress # currentProposer.thisAddress
  /\ bondAccounts[lastCall.args.proposer].amount # 0

\* C19: when the only registered proposer is removed, no proposer is left in the list and
\* the current proposer is the zero address
C19_LastProposerRemoved ==
  [][(/\ ProposerRemoved
      /\ RegisteredSet(proposers) = {lastCall'.args.proposer})
       => /\ RegisteredSet(proposers') = {}
          /\ \A a \in Addresses : proposers'[a] = ZeroLinkedAddress
          /\ currentProposer'.thisAddress = ZeroAddress]_vars

C19_Witness ==
  /\ lastCall.op = "removeProposer"
  /\ lastCall.args.wasCurrent
  /\ bondAccounts[lastCall.args.proposer].amount # 0
  /\ RegisteredSet(proposers) = {}
  /\ currentProposer = ZeroLinkedAddress
  /\ \A a \in Addresses \ {lastCall.args.proposer} : bondAccounts[a].amount = 0

ProposerRegistered ==
  /\ lastCall'.op = "registerProposer"
  /\ lastCall' # lastCall

\* C20: a registration into an empty list makes the sender current, announced by
\* NewCurrentProposer; the sender is in the list once, linked to itself, with the url and
\* the fee of the call, and its bond account has grown by the stake of the call
C20_FirstRegistrationIsCurrent ==
  [][(ProposerRegistered /\ RegisteredSet(proposers) = {})
       => LET p == lastCall'.sender
              offer == lastCall'.args.offer
          IN  /\ currentProposer'.thisAddress = p
              /\ lastCall'.events = <<Event("NewCurrentProposer", p)>>
              /\ RegisteredSet(proposers') = {p}
              /\ proposers'[p] = LinkedAddress(p, p, p, offer.url, offer.fee)
              /\ currentProposer' = proposers'[p]
              /\ bondAccounts'[p].amount = bondAccounts[p].amount + offer.stake]_vars

\* a proposer that had a bond from an earlier registration registered into the empty list
C20_Witness ==
  /\ lastCall.op = "registerProposer"
  /\ lastCall.events = <<Event("NewCurrentProposer", lastCall.sender)>>
  /\ RegisteredSet(proposers) = {lastCall.sender}
  /\ currentProposer.thisAddress = lastCall.sender
  /\ bondAccounts[lastCall.sender].amount > lastCall.args.offer.stake
  /\ proposers[lastCall.sender].url = lastCall.args.offer.url

(***************************************************************************)
(* Properties of the /proposer/register route                              *)
(***************************************************************************)
\* C21: a call of /register while the optimist's address is registered with the contract
\* queues no transaction, answers without a transaction hash and leaves the contract's
\* record of the proposers, their bonds and the current proposer as they were.
C21_RegisteredIsIgnored ==
  [][(RegisterRoute /\ proposerEthAddress \in getProposers)
       => (/\ txsQueue' = txsQueue
           /\ lastResponse'.transactionHash = NoSignedTransaction
           /\ proposers' = proposers
           /\ bondAccounts' = bondAccounts
           /\ currentProposer' = currentProposer)]_vars

\* the route answered a registered address that asked for another url, and signed nothing
C21_Witness ==
  /\ lastResponse.route = "register"
  /\ lastResponse.error = ""
  /\ lastResponse.transactionHash = NoSignedTransaction
  /\ proposerEthAddress \in getProposers
  /\ proposers[proposerEthAddress].url # lastResponse.request.url
  /\ txsQueue = <<>>

InvalidRequest(r) == r.url = EmptyUrl \/ (r.stake # 0 /\ r.stake < MinimumStake)

\* C22: /register without a url, or with a stake that is not zero and is below the
\* minimum, answers with an error and leaves the queue, the local record and isMe as
\* they were; with a url and a stake of zero, and the address not registered, the
\* transaction it queues carries the minimum stake.
C22_InvalidRequestFails ==
  [][RegisterRoute
       => LET r == lastResponse'.request IN
            /\ InvalidRequest(r)
                 => (/\ lastResponse'.error # ""
                     /\ lastResponse'.transactionHash = NoSignedTransaction
                     /\ UNCHANGED <<txsQueue, registeredProposerInDb, isMe>>)
            /\ (r.url # EmptyUrl /\ r.stake = 0 /\ proposerEthAddress \notin getProposers)
                 => (/\ lastResponse'.error = ""
                     /\ txsQueue' = Append(txsQueue,
                                           SignedTransaction(proposerEthAddress, r.url, r.fee,
                                                             MinimumStake)))]_vars

\* a request with a stake below the minimum failed while the transaction of a request
\* without a stake waits in the queue, with the minimum stake
C22_Witness ==
  /\ lastResponse.route = "register"
  /\ lastResponse.request.stake # 0
  /\ lastResponse.request.stake < MinimumStake
  /\ lastResponse.error # ""
  /\ txsQueue # <<>>
  /\ txsQueue[1].value = MinimumStake
  /\ registeredProposerInDb = txsQueue[1].url

(***************************************************************************)
(* Properties of the Rollback signal                                       *)
(***************************************************************************)
CurrentNodeState == NodeState(l2blocks, pool, timber, commitmentState)

\* C23: once Rollback(n) was handled, handling it again changes nothing: the stored
\* blocks, the mempool, the accumulator and the commitment states stay as they are.
C23_RollbackIdempotent ==
  lastOp.op = "rollback" => rollback(CurrentNodeState, lastOp.n) = CurrentNodeState

\* a Rollback that discarded a block, put its transactions back and rewound the leaves
C23_Witness ==
  /\ lastOp.op = "rollback"
  /\ lastOp.discarded >= 1
  /\ pool # <<>>
  /\ l2blocks # <<>>
  /\ timber.leafCount >= 1

RECURSIVE leafSubtree(_, _, _)
leafSubtree(leaves, lo, size) ==
  IF lo > Len(leaves) THEN ZeroHash
  ELSE IF size = 1 THEN leaves[lo]
  ELSE hashPair(leafSubtree(leaves, lo, size \div 2),
                leafSubtree(leaves, lo + (size \div 2), size \div 2))

RECURSIVE SmallestPow2(_, _)
SmallestPow2(p, n) == IF p >= n THEN p ELSE SmallestPow2(2 * p, n)

LeafRoot(leaves) == leafSubtree(leaves, 1, SmallestPow2(2, Len(leaves)))

\* C26: whichever batches the leaves came in, and whatever was rewound in between, the
\* root is the root of the tree over the ordered leaves; over two leaves it is their
\* hash and over four the hash of the hashes of the two pairs.
C26_RootOfLeafSequence ==
  /\ timber.leafCount = Len(timber.leaves)
  /\ timber.root = LeafRoot(timber.leaves)
  /\ (Len(timber.leaves) = 2
        => timber.root = hashPair(timber.leaves[1], timber.leaves[2]))
  /\ (Len(timber.leaves) = 4
        => timber.root = hashPair(hashPair(timber.leaves[1], timber.leaves[2]),
                                  hashPair(timber.leaves[3], timber.leaves[4])))

\* four leaves appended as two batches of two
C26_Witness ==
  /\ timber.leafCount = 4
  /\ {s.leafCount : s \in timber.snapshots} = {0, 2}
  /\ timber.leaves[1] # timber.leaves[2]
  /\ timber.root = hashPair(hashPair(timber.leaves[1], timber.leaves[2]),
                            hashPair(timber.leaves[3], timber.leaves[4]))

(***************************************************************************)
(* Properties of the tree over the transaction hashes                      *)
(***************************************************************************)
\* C25, as claimed: the root of an accepted block is the root of the tree with as many
\* leaves as the smallest power of two that is at least the number of transactions, one
\* leaf for one transaction.
C25_LeavesSmallestPowerOfTwo ==
  [][ProposeBlockAccepted
       => LET t == lastCall'.args.t IN
            /\ Cardinality(DOMAIN transactionHashesMemory(t)) = SmallestPow2(1, Len(t))
            /\ lastCall'.args.b.transactionHashesRoot
                 = subtreeHash(t, 1, SmallestPow2(1, Len(t)))]_vars

\* C25, amended: the tree has as many leaves as the smallest power of two that is at
\* least the number of transactions and at least two (2 leaves for 0 or 1 transaction,
\* 4 for 3), the leaves beyond the transactions being the zero hash.
C25_LeavesPowerOfTwoFromTwo ==
  [][ProposeBlockAccepted
       => LET t == lastCall'.args.t
              mem == transactionHashesMemory(t)
          IN  /\ DOMAIN mem = 0..(SmallestPow2(2, Len(t)) - 1)
              /\ \A j \in DOMAIN mem :
                   mem[j] = IF j < Len(t) THEN hashTransaction(t[j + 1]) ELSE ZeroHash
              /\ lastCall'.args.b.transactionHashesRoot
                   = subtreeHash(t, 1, SmallestPow2(2, Len(t)))]_vars

\* a block of one transaction was accepted: its root is the hash of the transaction's
\* hash and the zero hash
C25_Witness ==
  /\ lastCall.op = "proposeBlock"
  /\ Len(lastCall.args.t) = 1
  /\ blockHashes # <<>>
  /\ blockHashes[Len(blockHashes)].blockHash.b.transactionHashesRoot
       = hashPair(hashTransaction(lastCall.args.t[1]), ZeroHash)

\* a call is inside the critical section of findUsableCommitmentsMutex
CriticalPcs == {"find", "markPending"}

InCritical(i) == wpc[i] \in CriticalPcs

\* C27: reserve calls contend only on their own key: two calls with the same key are
\* never inside the critical section together, and a call waiting to reserve can enter
\* whenever no other call is inside the critical section of its key, whatever calls
\* hold the locks of other keys.
C27_KeyedExclusion ==
  /\ \A i \in Calls : \A j \in Calls :
       (i # j /\ InCritical(i) /\ InCritical(j)) => wparams[i].key # wparams[j].key
  /\ \A i \in Calls :
       (/\ wpc[i] = "reserve"
        /\ \A j \in Calls : (j # i /\ InCritical(j)) => wparams[j].key # wparams[i].key)
         => ENABLED MutexAcquire(i)

\* one call is inside the critical section of its key while another call, with a
\* different key, is about to enter its own
C27_Witness ==
  \E i \in Calls : \E j \in Calls :
    /\ InCritical(i)
    /\ wpc[j] = "reserve"
    /\ wparams[i].key # wparams[j].key
    /\ lock[wparams[i].key] = i

\* the fields of a transaction that keccak hashes, in its order
hashedFields(tx) ==
  <<tx.value, tx.fee, tx.transactionType, tx.tokenType, tx.historicRootBlockNumberL2,
    tx.tokenId, tx.ercAddress, tx.recipientAddress, tx.commitments, tx.nullifiers,
    tx.compressedSecrets, tx.proof>>

\* entries is the hashes given, in their order, followed by zeros up to n entries
ZeroPadded(entries, given, n) ==
  /\ Len(entries) = n
  /\ \A i \in 1..n :
       entries[i] = IF i <= Len(given) THEN Hex32(given[i].num) ELSE Hex32(0)

\* C28: a transaction the constructor built has its commitments zero-padded to
\* numberCommitments and its nullifiers and historic-root block numbers zero-padded to
\* numberNullifiers, and checkHash answers true on it; once a hashed field, or the order
\* of the commitments or nullifiers, is changed and transactionHash is not, checkHash
\* answers false.
C28_PaddedAndHashChecked ==
  built # NoPreimage =>
    /\ ZeroPadded(built.commitments,
                  [i \in 1..Len(arguments.commitments) |-> arguments.commitments[i].hash],
                  arguments.numberCommitments)
    /\ ZeroPadded(built.nullifiers,
                  [i \in 1..Len(arguments.nullifiers) |-> arguments.nullifiers[i].hash],
                  arguments.numberNullifiers)
    /\ ZeroPadded(built.historicRootBlockNumberL2, arguments.historicRootBlockNumberL2,
                  arguments.numberNullifiers)
    /\ built.transactionHash = held.transactionHash
    /\ checkHashResult = (hashedFields(held) = hashedFields(built))

\* a transaction built from one commitment and padded to three reaches checkHash with
\* its first two commitments exchanged, and checkHash answers false
C28_Witness ==
  /\ built # NoPreimage
  /\ Len(arguments.commitments) < Len(built.commitments)
  /\ held.commitments # built.commitments
  /\ {held.commitments[i] : i \in 1..Len(held.commitments)}
       = {built.commitments[i] : i \in 1..Len(built.commitments)}
  /\ Len(held.commitments) = Len(built.commitments)
  /\ checkHashResult = FALSE

\* the deposits among the transactions of a block
depositsOf(t) == {i \in 1..Len(t) : t[i].transactionType = DEPOSIT}

\* C29: a block that proposeBlock accepts holds no deposit whose transaction hash the
\* shield contract does not report as escrowed.
C29_AcceptedDepositsEscrowed ==
  [][ProposeBlockAccepted =>
       \A i \in depositsOf(lastCall'.args.t) :
         getTransactionEscrowed(hashTransaction(lastCall'.args.t[i]))]_vars

\* C30: the transactions of TransactionSubmitted events are admitted in the order in
\* which the events were emitted, with the transaction workers enabled too: the runs of
\* submitTransaction follow the order of the events.
C30_AdmittedInEmittedOrder ==
  \A i \in 1..Len(admitted) : \A j \in 1..Len(admitted) :
    i < j => admitted[i] < admitted[j]

(***************************************************************************)
(* Properties of the proposers' list and of the contract's callers         *)
(***************************************************************************)
\* the entries of ps form a circular doubly-linked list: every member's neighbours are
\* members, the next of its previous and the previous of its next are the member itself
WellFormedList(ps) ==
  \A p \in RegisteredSet(ps) :
    /\ ps[p].previousAddress \in RegisteredSet(ps)
    /\ ps[p].nextAddress \in RegisteredSet(ps)
    /\ ps[ps[p].previousAddress].nextAddress = p
    /\ ps[ps[p].nextAddress].previousAddress = p

\* C31: removeProposer(p) for a member p of a well-formed circular list clears p's record
\* and leaves the other members in a well-formed circular list in the same order: each
\* keeps its url, fee and neighbours, but for p's neighbours, which are linked to each
\* other in p's place.
C31_RemovalKeepsList ==
  [][(/\ ProposerRemoved
      /\ Registered(lastCall'.args.proposer)
      /\ WellFormedList(proposers))
       => LET p == lastCall'.args.proposer
              skip(a) == IF a = p THEN proposers[p].nextAddress ELSE a
              back(a) == IF a = p THEN proposers[p].previousAddress ELSE a
          IN  /\ proposers'[p] = ZeroLinkedAddress
              /\ RegisteredSet(proposers') = RegisteredSet(proposers) \ {p}
              /\ WellFormedList(proposers')
              /\ \A q \in RegisteredSet(proposers') :
                   proposers'[q] =
                     LinkedAddress(q, back(proposers[q].previousAddress),
                                   skip(proposers[q].nextAddress),
                                   proposers[q].url, proposers[q].fee)]_vars

\* the middle one of three members was removed: the two that remain follow each other
C31_Witness ==
  /\ lastCall.op \in {"removeProposer", "rewardChallenger"}
  /\ ~Registered(lastCall.args.proposer)
  /\ ~lastCall.args.wasCurrent
  /\ Cardinality(RegisteredSet(proposers)) = 2
  /\ WellFormedList(proposers)
  /\ \A q \in RegisteredSet(proposers) :
       proposers[q].nextAddress # q /\ proposers[q].nextAddress = proposers[q].previousAddress

\* C32: whenever a proposer is registered the current proposer is one of the registered
\* proposers, also after removeProposer or rewardChallenger was called for an address
\* that is not in the list.
C32_CurrentIsRegistered ==
  RegisteredSet(proposers) # {} => currentProposer.thisAddress \in RegisteredSet(proposers)

\* C33: the current proposer's record equals the entry of the proposers' map stored under
\* its address, with the same url and the same links to the previous and the next
\* proposer, after any sequence of setProposer, updateProposer, setCurrentProposer and
\* removeProposer.
C33_CurrentEqualsEntry ==
  currentProposer = proposers[currentProposer.thisAddress]

\* the storage of State.sol
storage == <<svars, cvars>>

\* C35: the storage is changed only by authorised callers.  A call of setProposer,
\* setCurrentProposer, updateProposer, setBondAccount, updateBondAccountTime or
\* setProposerStartBlock by another address than the proposers contract, of
\* resetFeeBookInfo by another address than the shield contract, and of emitRollback,
\* addPendingWithdrawal or setBlockStakeWithdrawn by an address that is none of the three
\* registered contracts changes nothing: no step that changes the storage is such a call.
\* A call of popBlockData or rewardChallenger that changes the storage was made by the
\* challenges contract and one of removeProposer by one of the three registered contracts.
C35_OnlyAuthorisedCallers ==
  [][storage' # storage
       => /\ \A sender \in ContractCallers :
               /\ sender # proposersAddress
                    => ~(\/ SetProposer(sender)
                         \/ SetCurrentProposer(sender)
                         \/ UpdateProposer(sender)
                         \/ SetBondAccount(sender)
                         \/ UpdateBondAccountTime(sender)
                         \/ SetProposerStartBlock(sender))
               /\ sender # shieldAddress
                    => ~ResetFeeBookInfo(sender)
               /\ sender \notin {proposersAddress, challengesAddress, shieldAddress}
                    => ~(\/ EmitRollback(sender)
                         \/ AddPendingWithdrawal(sender)
                         \/ SetBlockStakeWithdrawn(sender))
          /\ PopBlockData \/ RewardChallenger
               => lastCall'.sender = challengesAddress
          /\ RemoveProposer
               => lastCall'.sender \in {proposersAddress, challengesAddress, shieldAddress}]_vars

\* the challenges contract has popped the block of a proposer with a bond, who is still
\* the current proposer: storage that the other callers could have changed
C35_Witness ==
  /\ lastCall.op = "popBlockData"
  /\ lastCall.sender = challengesAddress
  /\ currentProposer.thisAddress \in SetterAddresses
  /\ \E a \in SetterAddresses : bondAccounts[a].amount = MinimumStake

\* C34: popBlockData removes the last stored block hash and returns it, and leaves every
\* earlier entry as it was; the block that proposeBlock accepts next has the new length as
\* its number and, if an entry is left, the hash of the new last entry as its previous
\* block hash.  On an empty list popBlockData changes nothing.
C34_PopRemovesLast ==
  [][/\ PopBlockData /\ blockHashes' # blockHashes
          => /\ Len(blockHashes') = Len(blockHashes) - 1
             /\ \A n \in 1..Len(blockHashes') : blockHashes'[n] = blockHashes[n]
             /\ lastCall'.op = "popBlockData"
             /\ lastCall'.args.popped = blockHashes[Len(blockHashes)]
     /\ lastCall.op = "popBlockData" /\ Len(blockHashes') > Len(blockHashes)
          => /\ lastCall'.op = "proposeBlock"
             /\ lastCall'.args.b.blockNumberL2 = Len(blockHashes)
             /\ Len(blockHashes) # 0
                  => lastCall'.args.b.previousBlockHash
                       = blockHashes[Len(blockHashes)].blockHash
     /\ PopBlockData /\ Len(blockHashes) = 0 => UNCHANGED storage]_vars

\* the second of two blocks was popped and the first one is still stored
C34_Witness ==
  /\ lastCall.op = "popBlockData"
  /\ Len(blockHashes) = 1
  /\ lastCall.args.popped.blockHash.b.blockNumberL2 = 1
  /\ blockHashes[1].blockHash.b.blockNumberL2 = 0

\* C37: rewardChallenger(challenger, proposer, n) removes the proposer from the rotation,
\* sets the proposer's bond to zero and adds the proposer's previous bond amount plus
\* n * BLOCK_STAKE to the challenger's pending ETH withdrawal; no other bond account and no
\* other pending withdrawal changes, and a second call for the same proposer adds
\* n * BLOCK_STAKE only.
C37_RewardIsBondPlusStakes ==
  [][RewardChallenger /\ storage' # storage
       => LET c == lastCall'.args.challengerAddr
              p == lastCall'.args.proposer
              n == lastCall'.args.numRemoved
          IN  /\ lastCall'.op = "rewardChallenger"
              /\ proposers'[p] = ZeroLinkedAddress
              /\ currentProposer'.thisAddress # p
              /\ bondAccounts'[p].amount = 0
              /\ \A a \in Addresses \ {p} : bondAccounts'[a] = bondAccounts[a]
              /\ pendingWithdrawals'[c][1]
                   = pendingWithdrawals[c][1] + bondAccounts[p].amount + n * BLOCK_STAKE
              /\ pendingWithdrawals'[c][2] = pendingWithdrawals[c][2]
              /\ \A a \in Addresses \ {c} : pendingWithdrawals'[a] = pendingWithdrawals[a]
              /\ lastCall.op = "rewardChallenger" /\ lastCall.args.proposer = p
                   => pendingWithdrawals'[c][1] = pendingWithdrawals[c][1] + n * BLOCK_STAKE]_vars

\* the current proposer, who had a bond, was removed with one block: the challenger is
\* owed the bond and the stake of the block
C37_Witness ==
  /\ lastCall.op = "rewardChallenger"
  /\ lastCall.args.wasCurrent
  /\ lastCall.args.numRemoved = 1
  /\ bondAccounts[lastCall.args.proposer].amount = 0
  /\ pendingWithdrawals[lastCall.args.challengerAddr][1] = MinimumStake + BLOCK_STAKE

\* C36: a call of withdraw that is not reverted pays the caller the pending ETH and MATIC
\* amounts recorded for it and leaves both at zero, also when the caller calls withdraw
\* again while it is paid the ETH; a call for an account with nothing pending pays
\* nothing; a call whose ETH transfer fails changes nothing; no call changes what is
\* pending for, or was paid to, another address.
C36_WithdrawPaysPending ==
  [][\A sender \in PayeeAddresses, isPaused \in BOOLEAN, ethTransfer \in EthTransfers,
        maticTransfer \in MaticTransfers :
       Withdraw(sender, isPaused, ethTransfer, maticTransfer)
         => /\ storage' # storage
                 => /\ paid'[sender][1] = paid[sender][1] + pendingWithdrawals[sender][1]
                    /\ paid'[sender][2] = paid[sender][2] + pendingWithdrawals[sender][2]
                    /\ pendingWithdrawals'[sender] = <<0, 0>>
            /\ pendingWithdrawals[sender] = <<0, 0>> => paid' = paid
            /\ pendingWithdrawals[sender][1] > 0 /\ ethTransfer = "refused"
                 => UNCHANGED storage
            /\ \A a \in Addresses \ {sender} :
                 pendingWithdrawals'[a] = pendingWithdrawals[a] /\ paid'[a] = paid[a]]_vars

\* an account was paid all the ETH and MATIC it was credited while another account's
\* credit is still pending
C36_Witness ==
  \E a, b \in PayeeAddresses :
    /\ paid[a] = <<MaxPending, MaxPending>>
    /\ pendingWithdrawals[a] = <<0, 0>>
    /\ pendingWithdrawals[b] # <<0, 0>>
    /\ paid[b] = <<0, 0>>

\* C39: however the /register requests for the node's address interleave, at most one
\* registerProposer transaction of that address is pushed to the queue before the address
\* is de-registered: while the contract has seen no call, neither the first registration
\* nor a removal, the queue holds one such transaction at most.
C39_OneRegistrationQueued ==
  lastCall = NoCall
    => Cardinality({i \in 1..Len(txsQueue) :
                      /\ txsQueue[i].method = "registerProposer"
                      /\ txsQueue[i].from = proposerEthAddress}) <= 1

\* C38: the routes /update and /de-register leave the node's record of its registration
\* as it is; the callback that the queue runs writes it, the new url for /update and none
\* for /de-register, when the signed transaction was sent successfully, and leaves it and
\* the contract unchanged when the sending failed.
C38_RecordFollowsSend ==
  [][/\ UpdateRoute \/ DeRegisterRoute => UNCHANGED registeredProposerInDb
     /\ SendUpdate(FALSE) \/ SendDeRegister(FALSE)
          => UNCHANGED <<registeredProposerInDb, storage>>
     /\ SendUpdate(TRUE)
          => /\ registeredProposerInDb' = Head(txsQueue).url
             /\ proposers'[proposerEthAddress].url = Head(txsQueue).url
     /\ SendDeRegister(TRUE)
          => /\ registeredProposerInDb' = NoRegistration
             /\ proposerEthAddress \notin RegisteredSet(proposers')]_vars

\* the update was sent: the contract and the node's record hold the new url, and a
\* de-registration is waiting in the queue
C38_Witness ==
  /\ registeredProposerInDb \in UpdatedUrls
  /\ proposers[proposerEthAddress].url = registeredProposerInDb
  /\ txsQueue # <<>>
  /\ Head(txsQueue).method = "deRegisterProposer"

\* the number of times submitTransaction ran on the transaction of the n-th event
timesSubmitted(n) == Cardinality({i \in 1..Len(admitted) : admitted[i] = n})

\* C40: submitTransaction runs exactly once on the transaction of every event passed to
\* the handler, on the main thread or on a worker: never twice, and once for every event
\* that is neither waiting in the queue nor in a request that is still to be settled.
C40_SubmittedExactlyOnce ==
  \A n \in 1..Len(emitted) :
    /\ timesSubmitted(n) <= 1
    /\ (/\ \A i \in 1..Len(eventQueue) : eventQueue[i].n # n
        /\ \A request \in inFlight : request.n # n)
         => timesSubmitted(n) = 1

====
